---------------------------- MODULE Spec2Model ----------------------------
(***************************************************************************)
(* Model of ZabbixAPIproxy: the identifier codec                           *)
(* (internal/proxy/proxyIDprocessing.go), the translation cache            *)
(* (internal/cache/cache.go) and the fan-out engine (processAllServers).   *)
(***************************************************************************)
EXTENDS Integers, Sequences, FiniteSets, TLC

(***************************************************************************)
(* Bounds of the model.                                                    *)
(***************************************************************************)
\* largest original identifier drawn as a codec input
MaxID == 12

\* radix of the simple encoding: the literal 10 of simpleModifyID
Radix == 10

\* last tick of the clock
MaxTime == 1

\* largest ttl handed to cleanup
MaxTTL == 1

\* number of cache operations before a snapshot is taken
MaxOps == 3

\* prx.global.maxReqBodySizeInt64, in bytes
MaxBody == 2

\* number of client requests fanned out concurrently
NClients == 2

\* maps and slices of a request that is cloned
MaxNodes == 3

\* in-place changes made to a clone
MaxMutations == 1

\* response objects rewritten one after another
MaxCalls == 3

\* calls of start and Stop on one cache
MaxStartStop == 4

\* global.max_requests: the capacity of the request semaphore
MaxRequests == 2

(***************************************************************************)
(* JSON values (Go `any`): int, float64, string and nil.  A string is a    *)
(* sequence of one-character strings; a float64 is its truncated integer   *)
(* part n plus a flag fr telling whether it has a fractional part.         *)
(***************************************************************************)
IntV(n) == [t |-> "int", n |-> n, s |-> <<>>, fr |-> FALSE]

FloatV(n, fr) == [t |-> "float64", n |-> n, s |-> <<>>, fr |-> fr]

StrV(s) == [t |-> "string", n |-> 0, s |-> s, fr |-> FALSE]

Nil == [t |-> "nil", n |-> 0, s |-> <<>>, fr |-> FALSE]

DigitSeq == <<"0", "1", "2", "3", "4", "5", "6", "7", "8", "9">>

DigitChars == {DigitSeq[i] : i \in 1..10}

DigitVal(c) == (CHOOSE i \in 1..10 : DigitSeq[i] = c) - 1

\* Go integer division and remainder truncate toward zero
GoQuo(a, b) == IF a >= 0 THEN a \div b ELSE -((-a) \div b)

GoRem(a, b) == IF a >= 0 THEN a % b ELSE -((-a) % b)

RECURSIVE DigitsVal(_)
DigitsVal(s) ==
    IF Len(s) = 0 THEN 0
    ELSE DigitsVal(SubSeq(s, 1, Len(s) - 1)) * 10 + DigitVal(s[Len(s)])

AllDigits(s) == Len(s) > 0 /\ \A i \in 1..Len(s) : s[i] \in DigitChars

\* strconv.Atoi: an optional sign followed by at least one decimal digit
AtoiOK(s) ==
    IF Len(s) > 0 /\ s[1] \in {"+", "-"} THEN AllDigits(Tail(s)) ELSE AllDigits(s)

Atoi(s) ==
    IF s[1] = "-" THEN -DigitsVal(Tail(s))
    ELSE IF s[1] = "+" THEN DigitsVal(Tail(s))
    ELSE DigitsVal(s)

RECURSIVE ItoaNat(_)
ItoaNat(n) ==
    IF n < 10 THEN <<DigitSeq[n + 1]>>
    ELSE ItoaNat(n \div 10) \o <<DigitSeq[(n % 10) + 1]>>

\* strconv.Itoa
Itoa(n) == IF n < 0 THEN <<"-">> \o ItoaNat(-n) ELSE ItoaNat(n)

(***************************************************************************)
(* ID codec.                                                               *)
(***************************************************************************)
isZeroID(id) ==
    CASE id.t = "float64" -> id.n = 0 /\ ~id.fr
      [] id.t = "int" -> id.n = 0
      [] id.t = "string" -> id.s = <<"0">>
      [] OTHER -> FALSE

\* the encoding with the backend digit dropped from the string branch
simpleModifyIDNoDigit(id, serverID) ==
    IF isZeroID(id) THEN id
    ELSE CASE id.t = "float64" -> IntV(id.n * Radix + serverID)
           [] id.t = "int" -> IntV(id.n * Radix + serverID)
           [] id.t = "string" ->
                IF AtoiOK(id.s) THEN StrV(Itoa(Atoi(id.s) * Radix)) ELSE id
           [] OTHER -> id

simpleModifyID(id, serverID) ==
    IF isZeroID(id) THEN id
    ELSE CASE id.t = "float64" -> IntV(id.n * Radix + serverID)
           [] id.t = "int" -> IntV(id.n * Radix + serverID)
           [] id.t = "string" ->
                IF AtoiOK(id.s) THEN StrV(Itoa(Atoi(id.s) * Radix + serverID)) ELSE id
           [] OTHER -> id

getServerFromID(id) ==
    CASE id.t = "float64" -> IF id.n < 10 THEN 0 ELSE GoRem(id.n, 10)
      [] id.t = "int" -> IF id.n < 10 THEN 0 ELSE GoRem(id.n, 10)
      [] id.t = "string" ->
           IF AtoiOK(id.s)
           THEN (IF Atoi(id.s) < 10 THEN 0 ELSE GoRem(Atoi(id.s), 10))
           ELSE 0
      [] OTHER -> 0

convertGrafanaIDToOriginal(id, serverID) ==
    CASE id.t = "float64" ->
           IF GoRem(id.n, 10) = serverID THEN IntV(GoQuo(id.n, 10)) ELSE Nil
      [] id.t = "int" ->
           IF GoRem(id.n, 10) = serverID THEN IntV(GoQuo(id.n, 10)) ELSE Nil
      [] id.t = "string" ->
           IF AtoiOK(id.s) /\ GoRem(Atoi(id.s), 10) = serverID
           THEN IntV(GoQuo(Atoi(id.s), 10))
           ELSE id
      [] OTHER -> Nil

(***************************************************************************)
(* Translation cache (internal/cache/cache.go).  A Go map is a function    *)
(* whose domain is the set of keys present.                                *)
(***************************************************************************)
EmptyMap == <<>>

MapPut(m, k, v) == [x \in (DOMAIN m) \cup {k} |-> IF x = k THEN v ELSE m[x]]

MapRestrict(m, keep) == [x \in (DOMAIN m) \cap keep |-> m[x]]

MapValues(m) == {m[x] : x \in DOMAIN m}

\* cacheItem
cacheItem(name, originalID, createdAt) ==
    [Name |-> name, OriginalID |-> originalID, CreatedAt |-> createdAt]

\* reverseID
reverseID(proxyID) == [ProxyID |-> proxyID]

\* newCache
newCache == [ProxyID |-> EmptyMap, ReverseID |-> EmptyMap]

\* the forward half of Set
SetForward(c, proxyID, OriginalID, SrvID, ItemName, createdAt) ==
    IF proxyID \in DOMAIN c.ProxyID
    THEN LET existingItem == c.ProxyID[proxyID] IN
         IF SrvID \in DOMAIN existingItem.OriginalID
            /\ existingItem.OriginalID[SrvID] = OriginalID
         THEN MapPut(c.ProxyID, proxyID,
                     cacheItem(existingItem.Name, existingItem.OriginalID, createdAt))
         ELSE MapPut(c.ProxyID, proxyID,
                     cacheItem(ItemName,
                               MapPut(existingItem.OriginalID, SrvID, OriginalID),
                               createdAt))
    ELSE MapPut(c.ProxyID, proxyID,
                cacheItem(ItemName, MapPut(EmptyMap, SrvID, OriginalID), createdAt))

\* the reverse half of Set with the new backend entry lost on an existing record
SetReverseKeepOld(c, proxyID, OriginalID, SrvID) ==
    IF OriginalID \in DOMAIN c.ReverseID
    THEN c.ReverseID
    ELSE MapPut(c.ReverseID, OriginalID, reverseID(MapPut(EmptyMap, SrvID, proxyID)))

\* the reverse half of Set
SetReverse(c, proxyID, OriginalID, SrvID) ==
    IF OriginalID \in DOMAIN c.ReverseID
    THEN LET existingReverse == c.ReverseID[OriginalID] IN
         IF SrvID \in DOMAIN existingReverse.ProxyID
            /\ existingReverse.ProxyID[SrvID] = proxyID
         THEN c.ReverseID
         ELSE MapPut(c.ReverseID, OriginalID,
                     reverseID(MapPut(existingReverse.ProxyID, SrvID, proxyID)))
    ELSE MapPut(c.ReverseID, OriginalID, reverseID(MapPut(EmptyMap, SrvID, proxyID)))

\* cacheType.Set
Set(c, proxyID, OriginalID, SrvID, ItemName, createdAt) ==
    IF proxyID <= 0 \/ OriginalID <= 0 \/ SrvID <= 0
    THEN c
    ELSE [ProxyID |-> SetForward(c, proxyID, OriginalID, SrvID, ItemName, createdAt),
          ReverseID |-> SetReverse(c, proxyID, OriginalID, SrvID)]

NotFound == [v |-> 0, ok |-> FALSE]

Found(v) == [v |-> v, ok |-> TRUE]

\* cacheType.GetOriginalID
GetOriginalID(c, proxyID, ServerID) ==
    IF proxyID \notin DOMAIN c.ProxyID THEN NotFound
    ELSE IF ServerID \in DOMAIN c.ProxyID[proxyID].OriginalID
         THEN Found(c.ProxyID[proxyID].OriginalID[ServerID])
         ELSE NotFound

\* cacheType.GetProxyID
GetProxyID(c, OriginalID, ServerID) ==
    IF OriginalID \notin DOMAIN c.ReverseID THEN NotFound
    ELSE IF ServerID \in DOMAIN c.ReverseID[OriginalID].ProxyID
         THEN Found(c.ReverseID[OriginalID].ProxyID[ServerID])
         ELSE NotFound

\* cacheType.Delete: the slice proxyIDs is walked front to back
RECURSIVE Delete(_, _)
Delete(c, proxyIDs) ==
    IF Len(proxyIDs) = 0 THEN c
    ELSE LET id == Head(proxyIDs) IN
         IF id \in DOMAIN c.ProxyID
         THEN Delete([ProxyID |-> MapRestrict(c.ProxyID, (DOMAIN c.ProxyID) \ {id}),
                      ReverseID |-> MapRestrict(c.ReverseID,
                                       (DOMAIN c.ReverseID)
                                          \ MapValues(c.ProxyID[id].OriginalID))],
                     Tail(proxyIDs))
         ELSE Delete(c, Tail(proxyIDs))

RECURSIVE SetToSeq(_)
SetToSeq(S) ==
    IF S = {} THEN <<>>
    ELSE LET x == CHOOSE y \in S : TRUE IN <<x>> \o SetToSeq(S \ {x})

\* the removal list computed by cleanup under the read lock
Expired(c, ttl, tnow) ==
    {proxyID \in DOMAIN c.ProxyID : tnow - c.ProxyID[proxyID].CreatedAt > ttl}

\* cacheType.cleanup
cleanup(c, ttl, tnow) == Delete(c, SetToSeq(Expired(c, ttl, tnow)))

(***************************************************************************)
(* Persistence: save writes json.Marshal of the serializable tree, load    *)
(* reads it back with json.Unmarshal.  encoding/json writes the int keys   *)
(* of a map as decimal strings and parses them back; a time.Time is        *)
(* written as text and parsed back.                                        *)
(***************************************************************************)
\* json.Marshal of a map[int]T: the keys become decimal strings
MarshalKeys(m) ==
    [k \in {Itoa(x) : x \in DOMAIN m} |-> m[CHOOSE x \in DOMAIN m : Itoa(x) = k]]

\* json.Unmarshal into a map[int]T: the keys are parsed as integers
UnmarshalKeys(j) ==
    [x \in {Atoi(k) : k \in DOMAIN j} |-> j[CHOOSE k \in DOMAIN j : Atoi(k) = x]]

MapMap(m, F(_)) == [x \in DOMAIN m |-> F(m[x])]

MarshalItem(item) ==
    [name |-> item.Name,
     originalID |-> MarshalKeys(item.OriginalID),
     createdAt |-> Itoa(item.CreatedAt)]

UnmarshalItem(j) == cacheItem(j.name, UnmarshalKeys(j.originalID), Atoi(j.createdAt))

MarshalReverse(r) == [ProxyID |-> MarshalKeys(r.ProxyID)]

UnmarshalReverse(j) == reverseID(UnmarshalKeys(j.ProxyID))

\* CacheEntry.toSerializable
toSerializable(ce) ==
    [k \in DOMAIN ce |-> [ProxyID |-> ce[k].ProxyID, ReverseID |-> ce[k].ReverseID]]

\* json.Marshal(serializablecacheEntry): the stored blob
Marshal(ser) ==
    [cacheType |->
        [k \in DOMAIN ser |->
            [proxyID |-> MarshalKeys(MapMap(ser[k].ProxyID, MarshalItem)),
             ServerID |-> MarshalKeys(MapMap(ser[k].ReverseID, MarshalReverse))]]]

\* json.Unmarshal(data, &serializable)
Unmarshal(data) ==
    [k \in DOMAIN data.cacheType |->
        [ProxyID |-> MapMap(UnmarshalKeys(data.cacheType[k].proxyID), UnmarshalItem),
         ReverseID |-> MapMap(UnmarshalKeys(data.cacheType[k].ServerID), UnmarshalReverse)]]

\* CacheEntry.save: the blob put into the bucket
save(ce) == Marshal(toSerializable(ce))

\* load that restores the forward map only
loadForwardOnly(ce, data) ==
    LET serializable == Unmarshal(data) IN
    [k \in (DOMAIN ce) \cup (DOMAIN serializable) |->
        IF k \in DOMAIN serializable
        THEN [ProxyID |-> serializable[k].ProxyID, ReverseID |-> EmptyMap]
        ELSE ce[k]]

\* CacheEntry.load: every cache type of the blob replaces or creates the type
load(ce, data) ==
    LET serializable == Unmarshal(data) IN
    [k \in (DOMAIN ce) \cup (DOMAIN serializable) |->
        IF k \in DOMAIN serializable
        THEN [ProxyID |-> serializable[k].ProxyID,
              ReverseID |-> serializable[k].ReverseID]
        ELSE ce[k]]

\* proxy.cachedFields as set by NewProxy: entity type -> name field
cachedFields == [host |-> "name", group |-> "name"]

\* newCacheEntry
newCacheEntry == EmptyMap

\* cacheEntryInit
cacheEntryInit(cacheFileds) == [ftype \in DOMAIN cacheFileds |-> newCache]

(***************************************************************************)
(* Request planner.  A params key is the pair <<base, suffix>> with suffix *)
(* "ids", "id" or "": <<"host", "ids">> is the key hostids.  A params      *)
(* value is a sequence ([]any) or a scalar, held in items.                 *)
(***************************************************************************)
HasSuffix(key, suffix) == key[2] = suffix

\* strings.TrimSuffix(strings.TrimSuffix(key, "ids"), "id")
TrimIDSuffix(key) == key[1]

ListV(items) == [list |-> TRUE, items |-> items]

ScalarV(v) == [list |-> FALSE, items |-> <<v>>]

\* zabbix.servers of the configuration, in configuration order
Servers ==
    << [ID |-> 1, Name |-> "zbx1", URL |-> "http://zbx1", Token |-> "token1"],
       [ID |-> 2, Name |-> "zbx2", URL |-> "http://zbx2", Token |-> "token2"] >>

\* getAllServers
getAllServers == {Servers[i].ID : i \in 1..Len(Servers)}

\* isIDBasedRequest: the keys ending in "ids" that hold a non-empty sequence
isIDBasedRequest(request) ==
    IF request.hasParams
    THEN {key \in DOMAIN request.params :
             /\ HasSuffix(key, "ids")
             /\ request.params[key].list
             /\ Len(request.params[key].items) > 0}
    ELSE {}

\* the identifiers extractServersFromParams looks at
RoutingIDs(params) ==
    UNION {{params[key].items[i] : i \in 1..Len(params[key].items)} :
              key \in {k \in DOMAIN params : HasSuffix(k, "ids")}}

\* the params keys extractServersFromParams looks at
RoutingKeys(params) == {key \in DOMAIN params : HasSuffix(key, "ids")}

\* the values of those keys in the order the loops visit them: the keys in
\* the order keyOrder of the map iteration, the values of a key front to back
RECURSIVE RoutingSeq(_, _)
RoutingSeq(params, keyOrder) ==
    IF Len(keyOrder) = 0 THEN <<>>
    ELSE params[Head(keyOrder)].items \o RoutingSeq(params, Tail(keyOrder))

\* the loop of extractServersFromParams that passes over an identifier
\* without a backend digit
RECURSIVE extractServersFromParamsNoBroadcast(_, _)
extractServersFromParamsNoBroadcast(ids, serverMap) ==
    IF Len(ids) = 0 THEN [all |-> FALSE, serverMap |-> serverMap]
    ELSE LET serverID == getServerFromID(Head(ids)) IN
         IF serverID > 0
         THEN extractServersFromParamsNoBroadcast(Tail(ids), serverMap \cup {serverID})
         ELSE extractServersFromParamsNoBroadcast(Tail(ids), serverMap)

\* extractServersFromParams: the values are visited one by one, a backend
\* digit is added to serverMap, and the first identifier without a backend
\* digit ends the loop with true
RECURSIVE extractServersFromParams(_, _)
extractServersFromParams(ids, serverMap) ==
    IF Len(ids) = 0 THEN [all |-> FALSE, serverMap |-> serverMap]
    ELSE LET serverID == getServerFromID(Head(ids)) IN
         IF serverID > 0
         THEN extractServersFromParams(Tail(ids), serverMap \cup {serverID})
         ELSE IF serverID = 0 THEN [all |-> TRUE, serverMap |-> serverMap]
         ELSE extractServersFromParams(Tail(ids), serverMap)

\* target selection that always answers with every configured backend
getTargetServersAll(request, keyOrder) == getAllServers

\* getTargetServers
getTargetServers(request, keyOrder) ==
    IF request.hasParams
    THEN LET e == extractServersFromParams(RoutingSeq(request.params, keyOrder), {}) IN
         IF e.all THEN getAllServers ELSE e.serverMap
    ELSE {}

Panic == [t |-> "panic", n |-> 0, s |-> <<>>, fr |-> FALSE]

\* the cache lookup with an unresolved identifier passed through unchanged
convertProxyIDToOriginalPass(id, serverID, key, ct) ==
    LET cacheType == TrimIDSuffix(key) IN
    CASE id.t \in {"float64", "int"} ->
           IF cacheType \notin DOMAIN ct THEN Panic
           ELSE IF GetOriginalID(ct[cacheType], id.n, serverID).ok
                THEN IntV(GetOriginalID(ct[cacheType], id.n, serverID).v)
                ELSE id
      [] id.t = "string" ->
           IF AtoiOK(id.s)
           THEN IF cacheType \notin DOMAIN ct THEN Panic
                ELSE IF GetOriginalID(ct[cacheType], Atoi(id.s), serverID).ok
                     THEN StrV(Itoa(GetOriginalID(ct[cacheType], Atoi(id.s), serverID).v))
                     ELSE id
           ELSE Nil
      [] OTHER -> Nil

\* convertProxyIDToOriginal: a method call on the nil cache of an entity type
\* that is not configured panics
convertProxyIDToOriginal(id, serverID, key, ct) ==
    LET cacheType == TrimIDSuffix(key) IN
    CASE id.t \in {"float64", "int"} ->
           IF cacheType \notin DOMAIN ct THEN Panic
           ELSE IF GetOriginalID(ct[cacheType], id.n, serverID).ok
                THEN IntV(GetOriginalID(ct[cacheType], id.n, serverID).v)
                ELSE Nil
      [] id.t = "string" ->
           IF AtoiOK(id.s)
           THEN IF cacheType \notin DOMAIN ct THEN Panic
                ELSE IF GetOriginalID(ct[cacheType], Atoi(id.s), serverID).ok
                     THEN StrV(Itoa(GetOriginalID(ct[cacheType], Atoi(id.s), serverID).v))
                     ELSE Nil
           ELSE Nil
      [] OTHER -> Nil

\* the filter loop that also keeps the identifiers of the other backends
RECURSIVE FilterIDsKeepForeign(_, _, _, _, _)
FilterIDsKeepForeign(items, srvID, key, ct, filtered) ==
    IF Len(items) = 0 THEN [panicked |-> FALSE, filtered |-> filtered]
    ELSE LET id == Head(items)
             sid == getServerFromID(id)
         IN  IF sid = srvID
             THEN LET originalID == convertGrafanaIDToOriginal(id, srvID) IN
                  FilterIDsKeepForeign(Tail(items), srvID, key, ct,
                                       IF originalID # Nil THEN Append(filtered, originalID)
                                       ELSE filtered)
             ELSE IF sid = 0
             THEN LET originalID == convertProxyIDToOriginal(id, srvID, key, ct) IN
                  IF originalID = Panic
                  THEN [panicked |-> TRUE, filtered |-> filtered]
                  ELSE FilterIDsKeepForeign(Tail(items), srvID, key, ct,
                                            IF originalID # Nil
                                            THEN Append(filtered, originalID)
                                            ELSE filtered)
             ELSE FilterIDsKeepForeign(Tail(items), srvID, key, ct, Append(filtered, id))

\* the filter loop over one []any field: the filtered sequence, or panicked
RECURSIVE FilterIDs(_, _, _, _, _)
FilterIDs(items, srvID, key, ct, filtered) ==
    IF Len(items) = 0 THEN [panicked |-> FALSE, filtered |-> filtered]
    ELSE LET id == Head(items)
             sid == getServerFromID(id)
         IN  IF sid = srvID
             THEN LET originalID == convertGrafanaIDToOriginal(id, srvID) IN
                  FilterIDs(Tail(items), srvID, key, ct,
                            IF originalID # Nil THEN Append(filtered, originalID)
                            ELSE filtered)
             ELSE IF sid = 0
             THEN LET originalID == convertProxyIDToOriginal(id, srvID, key, ct) IN
                  IF originalID = Panic
                  THEN [panicked |-> TRUE, filtered |-> filtered]
                  ELSE FilterIDs(Tail(items), srvID, key, ct,
                                 IF originalID # Nil THEN Append(filtered, originalID)
                                 ELSE filtered)
             ELSE FilterIDs(Tail(items), srvID, key, ct, filtered)

\* the scalar branch of the rewrite: the new value, unchanged, or not for srv
RewriteScalar(v, srvID, key, ct) ==
    LET sid == getServerFromID(v) IN
    IF sid = srvID
    THEN LET originalID == convertGrafanaIDToOriginal(v, srvID) IN
         [outcome |-> "send", v |-> IF originalID # Nil THEN originalID ELSE v]
    ELSE IF sid = 0
    THEN LET originalID == convertProxyIDToOriginal(v, srvID, key, ct) IN
         IF originalID = Panic THEN [outcome |-> "panic", v |-> v]
         ELSE [outcome |-> "send", v |-> IF originalID # Nil THEN originalID ELSE v]
    ELSE [outcome |-> "skip", v |-> v]

\* the rewrite that goes on with a field whose filtered sequence is empty
RECURSIVE RewriteParamsSendEmpty(_, _, _, _)
RewriteParamsSendEmpty(params, idFields, srvID, ct) ==
    IF Len(idFields) = 0 THEN [outcome |-> "send", params |-> params]
    ELSE LET idField == Head(idFields)
             v == params[idField]
         IN  IF v.list
             THEN LET f == FilterIDs(v.items, srvID, idField, ct, <<>>) IN
                  IF f.panicked THEN [outcome |-> "panic", params |-> params]
                  ELSE RewriteParamsSendEmpty([params EXCEPT ![idField] = ListV(f.filtered)],
                                              Tail(idFields), srvID, ct)
             ELSE LET w == RewriteScalar(v.items[1], srvID, idField, ct) IN
                  IF w.outcome # "send" THEN [outcome |-> w.outcome, params |-> params]
                  ELSE RewriteParamsSendEmpty([params EXCEPT ![idField] = ScalarV(w.v)],
                                              Tail(idFields), srvID, ct)

\* the rewrite of the cloned request for one backend, field by field in the
\* order of idFields: "send" with the rewritten params, "skip" when a filtered
\* sequence is empty or a scalar belongs to another backend, "panic"
RECURSIVE RewriteParams(_, _, _, _)
RewriteParams(params, idFields, srvID, ct) ==
    IF Len(idFields) = 0 THEN [outcome |-> "send", params |-> params]
    ELSE LET idField == Head(idFields)
             v == params[idField]
         IN  IF v.list
             THEN LET f == FilterIDs(v.items, srvID, idField, ct, <<>>) IN
                  IF f.panicked THEN [outcome |-> "panic", params |-> params]
                  ELSE IF Len(f.filtered) = 0
                  THEN [outcome |-> "skip", params |-> params]
                  ELSE RewriteParams([params EXCEPT ![idField] = ListV(f.filtered)],
                                     Tail(idFields), srvID, ct)
             ELSE LET w == RewriteScalar(v.items[1], srvID, idField, ct) IN
                  IF w.outcome # "send" THEN [outcome |-> w.outcome, params |-> params]
                  ELSE RewriteParams([params EXCEPT ![idField] = ScalarV(w.v)],
                                     Tail(idFields), srvID, ct)

\* the request semaphore admits a send while the channel is not full
SemaphoreNoLimit(held) == TRUE

SemaphoreHasRoom(held) == held < MaxRequests

(***************************************************************************)
(* Response rewrite.  A result is a sequence of objects, one object, or a  *)
(* scalar; an object maps keys (pairs <<base, suffix>> as in the request)  *)
(* to scalar values and has no pure-digit key.  processResponseIDs changes *)
(* the result, the translation cache and the set of proxy IDs already seen *)
(* in the client request.                                                  *)
(***************************************************************************)
\* entity types whose top-level duplicates are dropped
dedupFileds == {"group"}

\* a name: a string that is not a number
NameV(name) == [t |-> "string", n |-> 0, s |-> <<name>>, fr |-> FALSE]

GroupID == <<"group", "id">>

HostID == <<"host", "id">>

NameKey == <<"name", "">>

\* fnv.New32a over the name, modulo 10000000: the values of hash/fnv for
\* the names the responses are drawn from
fnv32aMod(s) ==
    CASE s = <<"Linux">> -> 8953917
      [] s = <<"Windows">> -> 4858250
      [] s = <<"web">> -> 5927825
      [] OTHER -> 1503683

ListResult(items) == [kind |-> "list", items |-> items, obj |-> EmptyMap]

MapResult(obj) == [kind |-> "map", items |-> <<>>, obj |-> obj]

ScalarResult == [kind |-> "scalar", items |-> <<>>, obj |-> EmptyMap]

NilResult == [kind |-> "nil", items |-> <<>>, obj |-> EmptyMap]

\* isEmpty
isEmpty(data) ==
    CASE data.kind = "list" -> Len(data.items) = 0
      [] data.kind = "map" -> DOMAIN data.obj = {}
      [] OTHER -> data.kind = "nil"

\* isIDField
isIDField(key) == HasSuffix(key, "id") /\ key # <<"", "id">>

GenError(ct) == [err |-> TRUE, id |-> Nil, ct |-> ct]

\* generateProxyID: the proxy ID of the object for the entity type, taken
\* from the cache or derived from the name and recorded in the cache
generateProxyID(fieldType, data, serverID, ct, createdAt) ==
    IF <<fieldType, "id">> \notin DOMAIN data THEN GenError(ct)
    ELSE LET origID == data[<<fieldType, "id">>] IN
         IF origID.t = "string" /\ ~AtoiOK(origID.s) THEN GenError(ct)
         ELSE LET intOrigID == CASE origID.t = "string" -> Atoi(origID.s)
                                 [] origID.t = "int" -> origID.n
                                 [] OTHER -> 0
                  val == GetProxyID(ct[fieldType], intOrigID, serverID)
                  nameKey == <<cachedFields[fieldType], "">>
              IN  IF val.v # 0
                  THEN [err |-> FALSE,
                        id |-> IF origID.t = "int" THEN IntV(val.v) ELSE StrV(Itoa(val.v)),
                        ct |-> ct]
                  ELSE IF nameKey \notin DOMAIN data THEN GenError(ct)
                  ELSE IF data[nameKey].t # "string" THEN GenError(ct)
                  ELSE LET proxyID == GoRem(fnv32aMod(data[nameKey].s), 10000000) * 10
                           ct2 == [ct EXCEPT ![fieldType] =
                                      Set(@, proxyID, intOrigID, serverID,
                                          data[nameKey].s[1], createdAt)]
                       IN  IF proxyID # 0
                           THEN [err |-> FALSE,
                                 id |-> IF origID.t = "int" THEN IntV(proxyID)
                                        ELSE StrV(Itoa(proxyID)),
                                 ct |-> ct2]
                           ELSE GenError(ct2)

\* isDuplicateID
isDuplicateID(id, fieldType, uniqProxyID) == <<fieldType, id>> \in uniqProxyID

\* markIDAsProcessed
markIDAsProcessed(id, fieldType, uniqProxyID) == uniqProxyID \cup {<<fieldType, id>>}

\* processCachedIDField after the call of generateProxyID, g being what the
\* call returned: the new value of the field (nil for a duplicate)
cachedIDFieldValue(g, fieldType, value, uniqProxyID, deepLevel) ==
    IF g.err THEN [v |-> value, ct |-> g.ct, uniq |-> uniqProxyID]
    ELSE IF deepLevel = 1 /\ fieldType \in dedupFileds
         THEN IF isDuplicateID(g.id, fieldType, uniqProxyID)
              THEN [v |-> Nil, ct |-> g.ct, uniq |-> uniqProxyID]
              ELSE [v |-> g.id, ct |-> g.ct,
                    uniq |-> markIDAsProcessed(g.id, fieldType, uniqProxyID)]
         ELSE [v |-> g.id, ct |-> g.ct, uniq |-> uniqProxyID]

\* processCachedIDField
processCachedIDField(fieldType, value, data, serverID, ct, uniqProxyID, deepLevel, createdAt) ==
    cachedIDFieldValue(generateProxyID(fieldType, data, serverID, ct, createdAt),
                       fieldType, value, uniqProxyID, deepLevel)

\* processIDField
processIDField(key, value, data, serverID, ct, uniqProxyID, deepLevel, createdAt) ==
    IF key[1] \in DOMAIN cachedFields
    THEN processCachedIDField(key[1], value, data, serverID, ct, uniqProxyID,
                              deepLevel, createdAt)
    ELSE [v |-> simpleModifyID(value, serverID), ct |-> ct, uniq |-> uniqProxyID]

\* v[key] = processIDField(...): p is what the call returned
assignField(key, data, p) ==
    [obj |-> [data EXCEPT ![key] = p.v], ct |-> p.ct, uniq |-> p.uniq]

\* one round of the loop over the keys of an object: acc holds the object,
\* the cache and the proxy IDs seen so far
processKey(key, acc, serverID, deepLevel, createdAt) ==
    IF isIDField(key)
    THEN assignField(key, acc.obj,
                     processIDField(key, acc.obj[key], acc.obj, serverID, acc.ct,
                                    acc.uniq, deepLevel, createdAt))
    ELSE acc

\* the map branch of processResponseIDs: the loop over the keys of one
\* object, whose keys are no digit strings (ifIDBasedResponseSimpleModify
\* leaves it alone); the ID fields of an object are of different entity
\* types, so the order of the keys does not change the outcome
RECURSIVE processObject(_, _, _, _, _)
processObject(keys, acc, serverID, deepLevel, createdAt) ==
    IF Len(keys) = 0 THEN acc
    ELSE processObject(Tail(keys),
                       processKey(Head(keys), acc, serverID, deepLevel, createdAt),
                       serverID, deepLevel, createdAt)

\* filtered = append(filtered, item): p is what the call on the item left
appendItem(filtered, p) ==
    [items |-> Append(filtered, p.obj), ct |-> p.ct, uniq |-> p.uniq]

\* the slice branch of processResponseIDs: every item is an object, the
\* call on it returns the object, never nil, and the item is kept
RECURSIVE processItems(_, _, _, _, _)
processItems(items, acc, serverID, deepLevel, createdAt) ==
    IF Len(items) = 0 THEN acc
    ELSE processItems(Tail(items),
                      appendItem(acc.items,
                                 processObject(SetToSeq(DOMAIN Head(items)),
                                               [obj |-> Head(items), ct |-> acc.ct,
                                                uniq |-> acc.uniq],
                                               serverID, deepLevel + 1, createdAt)),
                      serverID, deepLevel, createdAt)

\* what the slice branch returns
filteredList(p) == [result |-> ListResult(p.items), ct |-> p.ct, uniq |-> p.uniq]

\* what the map branch returns
processedMap(p) == [result |-> MapResult(p.obj), ct |-> p.ct, uniq |-> p.uniq]

\* processResponseIDs
processResponseIDs(data, serverID, ct, uniqProxyID, deepLevel, createdAt) ==
    CASE data.kind = "list" ->
           filteredList(processItems(data.items,
                                     [items |-> <<>>, ct |-> ct, uniq |-> uniqProxyID],
                                     serverID, deepLevel, createdAt))
      [] data.kind = "map" ->
           processedMap(processObject(SetToSeq(DOMAIN data.obj),
                                      [obj |-> data.obj, ct |-> ct, uniq |-> uniqProxyID],
                                      serverID, deepLevel, createdAt))
      [] OTHER -> [result |-> NilResult, ct |-> ct, uniq |-> uniqProxyID]

(***************************************************************************)
(* Aggregation and the response envelope.  An error text is a sequence of  *)
(* strings standing for their concatenation.                               *)
(***************************************************************************)
\* fmt.Sprintf("server %d: circuit breaker open", server.ID)
BreakerOpenText(serverID) == <<"server ">> \o Itoa(serverID) \o <<": circuit breaker open">>

\* err.Error() of a failed SendToZabbix
SendErrorText == <<"send error">>

TimeoutText == <<"request timeout">>

NoTargetText == <<"no target servers for ID-based request">>

serverError(url, err) == [url |-> url, err |-> err]

serverResult(result, serverID) == [result |-> result, serverID |-> serverID]

\* err.url + ": " + err.err for the first k errors of the channel
RECURSIVE CollectErrors(_, _)
CollectErrors(ch, k) ==
    IF k = 0 THEN <<>>
    ELSE Append(CollectErrors(ch, k - 1), <<ch[k].url, ": ">> \o ch[k].err)

\* the result case of the collecting loop over the results in arrival
\* order: sequences are appended to results, maps merged into resultsMap
RECURSIVE CollectResults(_, _, _)
CollectResults(ch, results, resultsMap) ==
    IF Len(ch) = 0 THEN [results |-> results, resultsMap |-> resultsMap]
    ELSE LET r == Head(ch).result IN
         CASE r.kind = "list" -> CollectResults(Tail(ch), results \o r.items, resultsMap)
           [] r.kind = "map" ->
                CollectResults(Tail(ch), results,
                    [key \in DOMAIN resultsMap \cup DOMAIN r.obj |->
                        IF key \in DOMAIN r.obj THEN r.obj[key] ELSE resultsMap[key]])
           [] OTHER -> CollectResults(Tail(ch), results, resultsMap)

\* the return statement after the collecting loop
Aggregate(ch) ==
    LET c == CollectResults(ch, <<>>, EmptyMap) IN
    IF Len(c.results) > 0 THEN ListResult(c.results) ELSE MapResult(c.resultsMap)

\* the envelope that is an error response whenever an error was recorded
EnvelopeErrorsFirst(results, errors) ==
    IF Len(errors) > 0
    THEN [kind |-> "error", error |-> errors, result |-> NilResult]
    ELSE IF isEmpty(results)
    THEN [kind |-> "result", error |-> <<>>, result |-> ListResult(<<>>)]
    ELSE [kind |-> "result", error |-> <<>>, result |-> results]

\* Handler: the envelope written for what processAllServers returned
Envelope(results, errors) ==
    IF isEmpty(results) /\ Len(errors) > 0
    THEN [kind |-> "error", error |-> errors, result |-> NilResult]
    ELSE IF isEmpty(results)
    THEN [kind |-> "result", error |-> <<>>, result |-> ListResult(<<>>)]
    ELSE [kind |-> "result", error |-> <<>>, result |-> results]

\* <-prx.requestSemaphore that leaves the slot taken
ReleaseSlotKept(held) == held

\* <-prx.requestSemaphore
ReleaseSlot(held) == held - 1

\* a goroutine that returns with its slot still taken
ReleaseDeferredKept(held) == held

\* defer func() { <-prx.requestSemaphore }() of the goroutine of a server
ReleaseDeferred(held) == held - 1

(***************************************************************************)
(* deepClone.  Maps and slices live in a heap: a sequence of nodes, the    *)
(* address of a node being its index.  A value is a scalar or the address  *)
(* of a node, so that two values can share one node.                       *)
(***************************************************************************)
Scalar(n) == [t |-> "scalar", n |-> n]

Ref(a) == [t |-> "ref", n |-> a]

MapNode(f) == [kind |-> "map", f |-> f, items |-> <<>>]

ListNode(items) == [kind |-> "list", f |-> EmptyMap, items |-> items]

\* the keys of the model: "id" is one of the keys deepClone copies as is,
\* "params" stands for every other key
CloneKeys == {"id", "params"}

\* case "jsonrpc", "method", "id", "auth"
ShallowKeys == {"jsonrpc", "method", "id", "auth"}

\* dst[key] = deepClone(value): c is what the call returned
storeKey(dst, key, c) == [c.heap EXCEPT ![dst].f = MapPut(@, key, c.v)]

\* dst[i] = deepClone(val): c is what the call returned
storeItem(dst, c) == [c.heap EXCEPT ![dst].items = Append(@, c.v)]

\* deepClone of the value src: the clone and the heap with the nodes made
\* for it.  cloneKeys and cloneItems are the two loops.
RECURSIVE deepClone(_, _)
RECURSIVE cloneKeys(_, _, _, _)
RECURSIVE cloneItems(_, _, _, _)
cloneKeys(keys, src, dst, heap) ==
    IF Len(keys) = 0 THEN heap
    ELSE IF Head(keys) \in ShallowKeys
    THEN cloneKeys(Tail(keys), src, dst,
                   [heap EXCEPT ![dst].f = MapPut(@, Head(keys), heap[src].f[Head(keys)])])
    ELSE cloneKeys(Tail(keys), src, dst,
                   storeKey(dst, Head(keys), deepClone(heap[src].f[Head(keys)], heap)))

cloneItems(i, src, dst, heap) ==
    IF i > Len(heap[src].items) THEN heap
    ELSE cloneItems(i + 1, src, dst, storeItem(dst, deepClone(heap[src].items[i], heap)))

deepClone(src, heap) ==
    IF src.t # "ref" THEN [v |-> src, heap |-> heap]
    ELSE IF heap[src.n].kind = "map"
    THEN [v |-> Ref(Len(heap) + 1),
          heap |-> cloneKeys(SetToSeq(DOMAIN heap[src.n].f), src.n, Len(heap) + 1,
                             Append(heap, MapNode(EmptyMap)))]
    ELSE [v |-> Ref(Len(heap) + 1),
          heap |-> cloneItems(1, src.n, Len(heap) + 1, Append(heap, ListNode(<<>>)))]

\* the addresses a value of node a points to
Children(heap, a) ==
    {heap[a].f[k].n : k \in {x \in DOMAIN heap[a].f : heap[a].f[x].t = "ref"}}
    \cup {heap[a].items[i].n : i \in {x \in 1..Len(heap[a].items) : heap[a].items[x].t = "ref"}}

\* the nodes reachable from the addresses of A in at most n steps
RECURSIVE ReachIn(_, _, _)
ReachIn(heap, A, n) ==
    IF n = 0 THEN A
    ELSE ReachIn(heap, A \cup UNION {Children(heap, a) : a \in A}, n - 1)

Reachable(heap, root) == ReachIn(heap, {root}, Len(heap))

(***************************************************************************)
(* Request gate: AuthMiddleware in front of the fan-out handler.  An HTTP  *)
(* request is its method, path, Content-Type, Content-Length, body and     *)
(* Authorization header.  A JSON-RPC method is the pair <<object, verb>>:  *)
(* <<"host", "create">> is host.create.                                    *)
(***************************************************************************)
StatusOK == 200

StatusBadRequest == 400

StatusUnauthorized == 401

StatusMethodNotAllowed == 405

StatusRequestEntityTooLarge == 413

StatusUnsupportedMediaType == 415

\* the metricPath argument of AuthMiddleware
metricPath == "/metrics"

\* strings.Contains(contentType, "application/json"), on the content types
\* requests are drawn from
ContainsApplicationJSON(contentType) ==
    contentType \in {"application/json", "application/json; charset=utf-8"}

\* the body: io.ReadAll fails, json.Unmarshal fails, or a JSON object with
\* its jsonrpc member and its method member (a string or not)
BodyReadError == [kind |-> "readError", jsonrpc |-> "", methodIsString |-> FALSE,
                  method |-> <<"", "">>]

BodyInvalidJSON == [kind |-> "invalidJSON", jsonrpc |-> "", methodIsString |-> FALSE,
                    method |-> <<"", "">>]

BodyObject(jsonrpc, methodIsString, method) ==
    [kind |-> "object", jsonrpc |-> jsonrpc, methodIsString |-> methodIsString,
     method |-> method]

\* the Authorization header: absent, or a scheme with its credentials
NoAuthorization == [scheme |-> "", user |-> "", secret |-> ""]

BearerAuthorization(scheme, token) == [scheme |-> scheme, user |-> "", secret |-> token]

BasicAuthorization(login, password) == [scheme |-> "Basic", user |-> login, secret |-> password]

\* authHeader != "Bearer "+token
IsBearer(authorization, token) ==
    authorization.scheme = "Bearer" /\ authorization.secret = token

\* r.BasicAuth(): ok only for a well-formed Basic header
BasicAuth(authorization) ==
    [ok |-> authorization.scheme = "Basic",
     login |-> IF authorization.scheme = "Basic" THEN authorization.user ELSE "",
     password |-> IF authorization.scheme = "Basic" THEN authorization.secret ELSE ""]

\* what the gate did with a request: the status it wrote (0 when the
\* response is left to the next handler), whether next.ServeHTTP ran, and
\* which reply was written
GateResult(status, next, reply) == [status |-> status, next |-> next, reply |-> reply]

\* the special methods, with only the create methods recognised
SpecialMethodCreateOnly(body) ==
    IF ~body.methodIsString THEN "none"
    ELSE IF body.method[2] = "create" THEN "create"
    ELSE "none"

\* the special methods answered by the gate
SpecialMethod(body) ==
    IF ~body.methodIsString THEN "none"
    ELSE IF body.method[2] = "create" THEN "create"
    ELSE IF body.method = <<"user", "login">> THEN "login"
    ELSE IF body.method = <<"apiinfo", "version">> THEN "version"
    ELSE "none"

\* authentication that takes any Authorization header for a valid one
AuthenticateAnyHeader(cfg, authorization) ==
    IF cfg.token # ""
    THEN authorization.scheme # ""
    ELSE IF cfg.login # "" /\ cfg.password # ""
    THEN authorization.scheme # ""
    ELSE TRUE

\* the authentication block of AuthMiddleware: TRUE when the request passes
Authenticate(cfg, authorization) ==
    IF cfg.token # ""
    THEN IsBearer(authorization, cfg.token)
    ELSE IF cfg.login # "" /\ cfg.password # ""
    THEN LET b == BasicAuth(authorization) IN
         b.ok /\ b.login = cfg.login /\ b.password = cfg.password
    ELSE TRUE

\* r.Method == "GET" || r.Method == "PUT" || r.Method == "DELETE"
MethodRefused(httpMethod) == httpMethod \in {"GET", "PUT", "DELETE"}

\* r.URL.Path == metricPath || r.URL.Path == "/health"
ForwardedPath(path) == path = metricPath \/ path = "/health"

\* the size check that lets every Content-Length pass
BodyTooLargeNever(contentLength, maxReqBodySize) == FALSE

\* r.ContentLength > prx.global.maxReqBodySizeInt64
BodyTooLarge(contentLength, maxReqBodySize) == contentLength > maxReqBodySize

\* AuthMiddleware, check by check in the order of the code
AuthMiddleware(cfg, r) ==
    IF r.Path = "/favicon.ico" THEN GateResult(StatusOK, FALSE, "favicon")
    ELSE IF ForwardedPath(r.Path) THEN GateResult(0, TRUE, "next")
    ELSE IF r.Method = "GET" /\ r.Path = "/" THEN GateResult(StatusOK, FALSE, "root")
    ELSE IF MethodRefused(r.Method)
    THEN GateResult(StatusMethodNotAllowed, FALSE, "Method Not Allowed")
    ELSE IF ~ContainsApplicationJSON(r.ContentType)
    THEN GateResult(StatusUnsupportedMediaType, FALSE, "Unsupported Media Type")
    ELSE IF BodyTooLarge(r.ContentLength, cfg.maxReqBodySize)
    THEN GateResult(StatusRequestEntityTooLarge, FALSE, "Request Entity Too Large")
    ELSE IF r.body.kind = "readError"
    THEN GateResult(StatusBadRequest, FALSE, "Bad request")
    ELSE IF r.body.kind = "invalidJSON"
    THEN GateResult(StatusBadRequest, FALSE, "Invalid JSON")
    ELSE IF r.body.jsonrpc # "2.0"
    THEN GateResult(StatusBadRequest, FALSE, "Invalid JSON-RPC request")
    ELSE IF SpecialMethod(r.body) = "create"
    THEN GateResult(StatusOK, FALSE, "Invalid method.")
    ELSE IF SpecialMethod(r.body) = "login"
    THEN GateResult(StatusOK, FALSE, "faketoken123")
    ELSE IF SpecialMethod(r.body) = "version"
    THEN GateResult(StatusOK, FALSE, "APIversion")
    ELSE IF ~Authenticate(cfg, r.Authorization)
    THEN GateResult(StatusUnauthorized, FALSE, "Unauthorized")
    ELSE GateResult(0, TRUE, "next")

(***************************************************************************)
(* State.                                                                  *)
(***************************************************************************)
VARIABLES
    cid,        \* codec: the value being converted
    corig,      \* codec: the identifier the conversion started from
    csrv,       \* codec: the backend the identifier was encoded for
    cdec,       \* codec: the backend the identifier was decoded for
    cstage,     \* codec: "input", "encoded" or "decoded"
    CacheType,  \* CacheEntry.CacheType: entity type -> cacheType
    now,        \* time.Now()
    lastOp,     \* the last cache operation and its arguments
    db,         \* the bucket: whether a blob is stored, and the blob
    loaded,     \* a second CacheEntry: whether load has filled it, and its CacheType
    nops,       \* cache operations applied before the snapshot
    request,    \* fan-out: the request of each client
    pc,         \* fan-out: where processAllServers of each client stands
    plan,       \* fan-out: isIDRequest, idFields and targetServers of each client
    idx,        \* fan-out: position of the dispatch loop in prx.config.Servers
    task,       \* fan-out: state of the goroutine of each (client, backend)
    sent,       \* fan-out: the request handed to SendToZabbix per (client, backend)
    errCh,      \* fan-out: the per-backend errors recorded for each client
    resultCh,   \* fan-out: the per-backend results sent for each client
    uniqProxyIDs, \* fan-out: the proxy IDs already seen in the request of each client
    cancelled,  \* fan-out: whether cancelCtx of each client is done
    ret,        \* fan-out: what processAllServers returned and Handler answered
    requestSemaphore,  \* number of slots held in prx.requestSemaphore
    http,       \* gate: the configuration, the request and what the gate did with it
    clone,      \* deepClone: the heap of maps and slices, the source and its clone
    bg,         \* CacheEntry workers: cancelFunc, the contexts and the goroutines
    sweep,      \* cacheType.cleanup: the removal set between the scan and Delete
    gen,        \* generateProxyID: the last call and what it returned
    keymod,     \* ifIDBasedResponseSimpleModify: the map, the iteration order, the outcome
    elock,      \* CacheEntry.mu: the holders, the waiters and where each goroutine stands
    dedup,      \* processCachedIDField of concurrent goroutines on uniqProxyIDs
    snap,       \* save concurrent with Set and Delete: the maps and what was read
    resem,      \* reload: the semaphores of the proxy states and the tasks in flight
    reconf,     \* reload: the running state and what reloadConfiguration did
    breaker     \* circuit breaker: the last report made for each backend

codecVars == <<cid, corig, csrv, cdec, cstage>>

cacheVars == <<CacheType, now, lastOp, db, loaded, nops>>

fanVars == <<request, pc, plan, idx, task, sent, errCh, resultCh, uniqProxyIDs,
             cancelled, ret, requestSemaphore>>

gateVars == <<http>>

cloneVars == <<clone>>

workerVars == <<bg>>

sweepVars == <<sweep>>

genVars == <<gen>>

keyVars == <<keymod>>

lockVars == <<elock>>

dedupVars == <<dedup>>

snapVars == <<snap>>

reloadVars == <<resem, reconf>>

moreVars == <<keyVars, lockVars, dedupVars, snapVars, reloadVars>>

cbVars == <<breaker>>

auxVars == <<cloneVars, workerVars, sweepVars, genVars, moreVars>>

vars == <<codecVars, cacheVars, fanVars, gateVars, auxVars, cbVars>>

\* the variables of the codec, the cache, the fan-out, the gate, the clone,
\* the workers, the sweep, the generator and the circuit breaker
oldVars == <<codecVars, cacheVars, fanVars, gateVars, cloneVars, workerVars, sweepVars,
             genVars, cbVars>>

(***************************************************************************)
(* Codec: an identifier is encoded for a backend, then decoded for some    *)
(* backend.                                                                *)
(***************************************************************************)
BackendIDs == 1..9

\* identifiers as they arrive: ints, float64s, decimal strings and other strings
CodecInputs ==
    {IntV(n) : n \in 0..MaxID}
        \cup {FloatV(n, FALSE) : n \in 0..MaxID}
        \cup {StrV(Itoa(n)) : n \in 0..MaxID}
        \cup {StrV(<<"a", "b", "c">>), StrV(<<"0", "7">>), StrV(<<"-", "5">>)}

CodecIdle ==
    /\ cid = Nil /\ corig = Nil /\ csrv = 0 /\ cdec = 0 /\ cstage = "idle"

CacheIdle ==
    /\ CacheType = cacheEntryInit(cachedFields)
    /\ now = 0
    /\ lastOp = [kind |-> "none", p |-> 0, o |-> 0, b |-> 0, ttl |-> 0]
    /\ db = [has |-> FALSE, data |-> EmptyMap]
    /\ loaded = [has |-> FALSE, ce |-> EmptyMap]
    /\ nops = 0

Clients == 1..NClients

ServerIDs == getAllServers

\* a request: the method and, when present, the params object
Request(method, params) == [method |-> method, hasParams |-> TRUE, params |-> params]

ReqNoParams == [method |-> "host.get", hasParams |-> FALSE, params |-> EmptyMap]

NotSent == [has |-> FALSE, method |-> "", auth |-> "", params |-> EmptyMap]

NoEnvelope == [kind |-> "", error |-> <<>>, result |-> NilResult]

NotReturned ==
    [has |-> FALSE, how |-> "", results |-> NilResult, errors |-> <<>>,
     response |-> NoEnvelope]

\* processAllServers returns (results, errors) and Handler writes the envelope
Returned(how, results, errors) ==
    [has |-> TRUE, how |-> how, results |-> results, errors |-> errors,
     response |-> Envelope(results, errors)]

FanIdle ==
    /\ request = [r \in Clients |-> ReqNoParams]
    /\ pc = [r \in Clients |-> "idle"]
    /\ plan = [r \in Clients |->
                 [isIDRequest |-> FALSE, idFields |-> <<>>, targetServers |-> {}]]
    /\ idx = [r \in Clients |-> 1]
    /\ task = [r \in Clients |-> [sid \in ServerIDs |-> "none"]]
    /\ sent = [r \in Clients |-> [sid \in ServerIDs |-> NotSent]]
    /\ errCh = [r \in Clients |-> <<>>]
    /\ resultCh = [r \in Clients |-> <<>>]
    /\ uniqProxyIDs = [r \in Clients |-> {}]
    /\ cancelled = [r \in Clients |-> FALSE]
    /\ ret = [r \in Clients |-> NotReturned]
    /\ requestSemaphore = 0

(***************************************************************************)
(* Request gate: requests are served one after another by AuthMiddleware   *)
(* under the configuration the process was started with.                   *)
(***************************************************************************)
GateConfig(token, login, password) ==
    [token |-> token, login |-> login, password |-> password,
     maxReqBodySize |-> MaxBody]

GateConfigs ==
    {GateConfig(token, login, password) :
        token \in {"", "secret"}, login \in {"", "admin"}, password \in {"", "pw"}}

HTTPMethods == {"GET", "POST", "PUT", "DELETE", "PATCH"}

Paths == {"/", "/api", "/favicon.ico", metricPath, "/health"}

ContentTypes == {"application/json", "application/json; charset=utf-8", "text/plain"}

ContentLengths == (-1)..(MaxBody + 1)

RPCMethods ==
    {<<"host", "get">>, <<"host", "create">>, <<"user", "login">>,
     <<"apiinfo", "version">>, <<"user", "logout">>}

Bodies ==
    {BodyReadError, BodyInvalidJSON}
      \cup {BodyObject(v, TRUE, m) : v \in {"2.0", "1.0"}, m \in RPCMethods}
      \cup {BodyObject("2.0", FALSE, <<"", "">>)}

Authorizations ==
    {NoAuthorization,
     BearerAuthorization("Bearer", "secret"), BearerAuthorization("Bearer", "other"),
     BasicAuthorization("admin", "pw"), BasicAuthorization("admin", "other"),
     BasicAuthorization("root", "pw")}

HTTPRequest(method, path, contentType, contentLength, body, authorization) ==
    [Method |-> method, Path |-> path, ContentType |-> contentType,
     ContentLength |-> contentLength, body |-> body, Authorization |-> authorization]

HTTPRequests ==
    {HTTPRequest(m, p, ct, cl, b, a) :
        m \in HTTPMethods, p \in Paths, ct \in ContentTypes, cl \in ContentLengths,
        b \in Bodies, a \in Authorizations}

NoRequest == HTTPRequest("", "", "", 0, BodyReadError, NoAuthorization)

GateIdle ==
    http = [served |-> FALSE, cfg |-> GateConfig("", "", ""), req |-> NoRequest,
            res |-> GateResult(0, FALSE, "")]

\* no request was cloned
CloneIdle ==
    clone = [stage |-> "idle", heap |-> <<>>, source |-> <<>>, cloned |-> Scalar(0),
             nmut |-> 0]

\* newCacheEntry: no cancel function (0 stands for nil), no worker
NewWorkers(database) ==
    [cancelFunc |-> 0, nctx |-> 0, done |-> {}, workers |-> {}, db |-> database,
     ncalls |-> 0, nstart |-> 0, last |-> [op |-> "new", ignored |-> FALSE]]

WorkersIdle == bg = NewWorkers("nil")

SweepIdle == sweep = [stage |-> "idle", clenaup |-> <<>>, ttl |-> 0]

GenIdle ==
    gen = [stage |-> "idle", ftype |-> "", data |-> EmptyMap, serverID |-> 0,
           before |-> newCache, err |-> FALSE, id |-> Nil, ncalls |-> 0]

\* the value of a variable of a part of the program that a specification
\* leaves out
Unused == <<>>

KeymodIdle == keymod = Unused

Goroutines == {"main", "autosave", "cleanup"}

NewLock ==
    [readers |-> 0, writer |-> FALSE, waiting |-> FALSE,
     cancelFunc |-> FALSE, done |-> FALSE, db |-> "nil",
     pc |-> [g \in Goroutines |-> IF g = "main" THEN "new" ELSE "none"],
     calls |-> 0, returned |-> 0]

LockIdle == elock = Unused

NewDedup ==
    [uniqProxyID |-> {},
     items |-> [sid \in ServerIDs |-> <<>>],
     pc |-> [sid \in ServerIDs |-> "isDuplicateID"],
     kept |-> [sid \in ServerIDs |-> <<>>]]

DedupIdle == dedup = Unused

NewSnap ==
    [c |-> newCache, writer |-> FALSE,
     set |-> [pc |-> "idle", proxyID |-> 0, OriginalID |-> 0, SrvID |-> 0],
     nsets |-> 0, save |-> "idle", data |-> newCache, complete |-> {newCache}]

SnapIdle == snap = Unused

MaxTasks == 3

MaxReloads == 2

\* a configuration: the backends, the size of the request semaphore and the
\* path of the cache database
Config(servers, maxRequests, dbPath) ==
    [Servers |-> servers, MaxRequests |-> maxRequests, DBPath |-> dbPath]

\* config{}
ZeroConfig == Config({}, 0, "")

StartConfig == Config({1, 2}, MaxRequests, "cache.db")

NewResem ==
    [cur |-> 0,
     cap |-> [g \in 0..MaxReloads |-> IF g = 0 THEN StartConfig.MaxRequests ELSE 0],
     sem |-> [g \in 0..MaxReloads |-> 0],
     task |-> [t \in 1..MaxTasks |-> [pc |-> "none", on |-> 0]]]

NewReconf ==
    [conf |-> StartConfig, Servers |-> StartConfig.Servers,
     cache |-> [DBPath |-> StartConfig.DBPath, entry |-> 0],
     alive |-> TRUE, loaded |-> "ok", nreload |-> 0]

ReloadIdle == resem = Unused /\ reconf = Unused

MoreIdle == KeymodIdle /\ LockIdle /\ DedupIdle /\ SnapIdle /\ ReloadIdle

\* no report was made to the circuit breaker
BreakerIdle == breaker = [sid \in ServerIDs |-> "none"]

AuxIdle == CloneIdle /\ WorkersIdle /\ SweepIdle /\ GenIdle /\ MoreIdle /\ BreakerIdle

OldIdle ==
    /\ CodecIdle /\ CacheIdle /\ FanIdle /\ GateIdle
    /\ CloneIdle /\ WorkersIdle /\ SweepIdle /\ GenIdle /\ BreakerIdle

InitCodec ==
    /\ corig \in CodecInputs
    /\ cid = corig
    /\ csrv \in BackendIDs
    /\ cdec = 0
    /\ cstage = "input"
    /\ CacheIdle
    /\ FanIdle
    /\ GateIdle
    /\ AuxIdle

Encode ==
    /\ cstage = "input"
    /\ cid' = simpleModifyID(cid, csrv)
    /\ cstage' = "encoded"
    /\ UNCHANGED <<corig, csrv, cdec, cacheVars, fanVars, gateVars, auxVars, cbVars>>

Decode(serverID) ==
    /\ cstage = "encoded"
    /\ cid' = convertGrafanaIDToOriginal(cid, serverID)
    /\ cdec' = serverID
    /\ cstage' = "decoded"
    /\ UNCHANGED <<corig, csrv, cacheVars, fanVars, gateVars, auxVars, cbVars>>

NextCodec == Encode \/ \E serverID \in BackendIDs : Decode(serverID)

SpecCodec == InitCodec /\ [][NextCodec]_vars

\* an original identifier o >= 1 given as an int or as a decimal string
IsOrig(id) ==
    \/ id.t = "int" /\ id.n >= 1
    \/ id.t = "string" /\ AllDigits(id.s) /\ Atoi(id.s) >= 1

OrigVal(id) == IF id.t = "string" THEN Atoi(id.s) ELSE id.n

C2_OtherBackendNil ==
    (cstage = "decoded" /\ cdec # csrv /\ IsOrig(corig)) => cid = Nil

(***************************************************************************)
(* Cache: Set, Delete and cleanup on the cache of one entity type, with    *)
(* the clock advancing between calls.                                      *)
(***************************************************************************)
\* the entity type whose cache the operations are applied to
TypeUnderTest == "host"

ProxyIDs == {10, 20}

OrigIDs == {1, 2}

SrvIDs == {1, 2}

Names == {"n"}

DeleteLists == {<<>>, <<10>>, <<20>>, <<10, 20>>, <<20, 10>>, <<30>>}

Op(kind, p, o, b, ttl) == [kind |-> kind, p |-> p, o |-> o, b |-> b, ttl |-> ttl]

InitCache == CodecIdle /\ CacheIdle /\ FanIdle /\ GateIdle /\ AuxIdle

DoSet(ty, proxyID, OriginalID, SrvID, ItemName) ==
    /\ CacheType' = [CacheType EXCEPT
                       ![ty] = Set(@, proxyID, OriginalID, SrvID, ItemName, now)]
    /\ UNCHANGED <<now, db, loaded>>

DoDelete(ty, proxyIDs) ==
    /\ CacheType' = [CacheType EXCEPT ![ty] = Delete(@, proxyIDs)]
    /\ UNCHANGED <<now, db, loaded>>

DoCleanup(ty, ttl) ==
    /\ CacheType' = [CacheType EXCEPT ![ty] = cleanup(@, ttl, now)]
    /\ UNCHANGED <<now, db, loaded>>

Tick ==
    /\ now < MaxTime
    /\ now' = now + 1
    /\ UNCHANGED <<CacheType, lastOp, db, loaded, nops, codecVars, gateVars, auxVars, cbVars, fanVars>>

CacheSet ==
    \E proxyID \in ProxyIDs \cup {0}, OriginalID \in OrigIDs \cup {0},
       SrvID \in SrvIDs \cup {0}, ItemName \in Names :
        /\ DoSet(TypeUnderTest, proxyID, OriginalID, SrvID, ItemName)
        /\ lastOp' = IF proxyID <= 0 \/ OriginalID <= 0 \/ SrvID <= 0
                     THEN Op("SetRejected", 0, 0, 0, 0)
                     ELSE Op("Set", proxyID, OriginalID, SrvID, 0)
        /\ UNCHANGED <<nops, codecVars, gateVars, auxVars, cbVars, fanVars>>

CacheDelete ==
    \E proxyIDs \in DeleteLists :
        /\ DoDelete(TypeUnderTest, proxyIDs)
        /\ lastOp' = Op("Delete", 0, 0, 0, 0)
        /\ UNCHANGED <<nops, codecVars, gateVars, auxVars, cbVars, fanVars>>

CacheCleanup ==
    \E ttl \in 0..MaxTTL :
        /\ DoCleanup(TypeUnderTest, ttl)
        /\ lastOp' = Op("cleanup", 0, 0, 0, ttl)
        /\ UNCHANGED <<nops, codecVars, gateVars, auxVars, cbVars, fanVars>>

NextCache == CacheSet \/ CacheDelete \/ CacheCleanup \/ Tick

SpecCache == InitCache /\ [][NextCache]_vars

\* the cache the operations of SpecCache act on
C == CacheType[TypeUnderTest]

\* C3: the forward and the reverse map agree after any sequence of Set,
\* Delete and cleanup: ProxyID[p].OriginalID[b] = o iff ReverseID[o].ProxyID[b] = p.
C3_ForwardReverseAgree ==
    \A p \in ProxyIDs, b \in SrvIDs, o \in OrigIDs :
        (GetOriginalID(C, p, b) = Found(o)) <=> (GetProxyID(C, o, b) = Found(p))

\* C4: after Set(p, o1, b, n) followed by Set(p, o2, b, n) with o1 # o2,
\* GetProxyID(o1, b) reports not-found and GetProxyID(o2, b) returns p.
C4_OldReverseCleared ==
    [][(/\ lastOp.kind = "Set" /\ lastOp'.kind = "Set"
        /\ lastOp'.p = lastOp.p /\ lastOp'.b = lastOp.b /\ lastOp'.o # lastOp.o)
       => (/\ GetProxyID(CacheType'[TypeUnderTest], lastOp.o, lastOp.b) = NotFound
           /\ GetProxyID(CacheType'[TypeUnderTest], lastOp'.o, lastOp'.b)
                 = Found(lastOp'.p))]_vars

\* C5: right after a Set(p, o, b, n) with positive arguments, from whatever
\* state, GetOriginalID(p, b) returns o and GetProxyID(o, b) returns p.
C5_SetThenGet ==
    lastOp.kind = "Set" =>
        /\ GetOriginalID(C, lastOp.p, lastOp.b) = Found(lastOp.o)
        /\ GetProxyID(C, lastOp.o, lastOp.b) = Found(lastOp.p)

\* the Set overwrote a state in which another proxy ID held the same
\* (original ID, backend) and the same proxy ID held another original ID
C5_Witness ==
    /\ lastOp.kind = "Set"
    /\ \E q \in DOMAIN C.ProxyID :
          /\ q # lastOp.p
          /\ GetOriginalID(C, q, lastOp.b) = Found(lastOp.o)
    /\ \E o \in DOMAIN C.ReverseID :
          /\ o # lastOp.o
          /\ GetProxyID(C, o, lastOp.b) = Found(lastOp.p)
    /\ GetOriginalID(C, lastOp.p, lastOp.b) = Found(lastOp.o)
    /\ GetProxyID(C, lastOp.o, lastOp.b) = Found(lastOp.p)

\* C6: cleanup(ttl) removes exactly the forward entries older than ttl, and
\* every surviving entry keeps all its mappings in both directions.
C6_CleanupExact ==
    [][(lastOp'.kind = "cleanup" /\ now' = now) =>
         LET before == CacheType[TypeUnderTest]
             after  == CacheType'[TypeUnderTest]
         IN  /\ DOMAIN after.ProxyID
                  = (DOMAIN before.ProxyID) \ Expired(before, lastOp'.ttl, now)
             /\ \A p \in DOMAIN after.ProxyID :
                  \A b \in DOMAIN before.ProxyID[p].OriginalID :
                     LET o == before.ProxyID[p].OriginalID[b] IN
                     /\ GetOriginalID(after, p, b) = Found(o)
                     /\ GetProxyID(before, o, b) = Found(p)
                          => GetProxyID(after, o, b) = Found(p)]_vars

(***************************************************************************)
(* Persistence: a cache with its entity types is filled, saved, and the    *)
(* blob is loaded into a fresh CacheEntry.                                 *)
(***************************************************************************)
InitPersist == CodecIdle /\ CacheIdle /\ FanIdle /\ GateIdle /\ AuxIdle

PersistSet ==
    /\ ~db.has /\ nops < MaxOps
    /\ \E ty \in DOMAIN CacheType, proxyID \in ProxyIDs, OriginalID \in OrigIDs,
          SrvID \in SrvIDs, ItemName \in Names :
            DoSet(ty, proxyID, OriginalID, SrvID, ItemName)
    /\ nops' = nops + 1
    /\ UNCHANGED <<lastOp, codecVars, gateVars, auxVars, cbVars, fanVars>>

PersistDelete ==
    /\ ~db.has /\ nops < MaxOps
    /\ \E ty \in DOMAIN CacheType, proxyIDs \in DeleteLists : DoDelete(ty, proxyIDs)
    /\ nops' = nops + 1
    /\ UNCHANGED <<lastOp, codecVars, gateVars, auxVars, cbVars, fanVars>>

PersistCleanup ==
    /\ ~db.has /\ nops < MaxOps
    /\ \E ty \in DOMAIN CacheType, ttl \in 0..MaxTTL : DoCleanup(ty, ttl)
    /\ nops' = nops + 1
    /\ UNCHANGED <<lastOp, codecVars, gateVars, auxVars, cbVars, fanVars>>

PersistTick == ~db.has /\ Tick

Save ==
    /\ ~db.has
    /\ db' = [has |-> TRUE, data |-> save(CacheType)]
    /\ UNCHANGED <<CacheType, now, lastOp, loaded, nops, codecVars, gateVars, auxVars, cbVars, fanVars>>

Load ==
    /\ db.has /\ ~loaded.has
    /\ \E fresh \in {newCacheEntry, cacheEntryInit(cachedFields)} :
          loaded' = [has |-> TRUE, ce |-> load(fresh, db.data)]
    /\ UNCHANGED <<CacheType, now, lastOp, db, nops, codecVars, gateVars, auxVars, cbVars, fanVars>>

NextPersist ==
    PersistSet \/ PersistDelete \/ PersistCleanup \/ PersistTick \/ Save \/ Load

SpecPersist == InitPersist /\ [][NextPersist]_vars

\* C7: saving a cache and loading the blob into a fresh cache is a round
\* trip: GetOriginalID and GetProxyID answer on the loaded cache exactly as
\* on the source cache, for every entity type, proxy ID, original ID and backend.
C7_SaveLoadRoundTrip ==
    loaded.has =>
        \A ty \in DOMAIN CacheType :
            /\ ty \in DOMAIN loaded.ce
            /\ \A p \in ProxyIDs \cup {0, 30}, o \in OrigIDs \cup {0}, b \in SrvIDs \cup {0} :
                  /\ GetOriginalID(loaded.ce[ty], p, b) = GetOriginalID(CacheType[ty], p, b)
                  /\ GetProxyID(loaded.ce[ty], o, b) = GetProxyID(CacheType[ty], o, b)

C7_Witness ==
    /\ loaded.has
    /\ GetOriginalID(loaded.ce["host"], 10, 1).ok
    /\ GetProxyID(loaded.ce["host"], GetOriginalID(loaded.ce["host"], 10, 1).v, 1) = Found(10)
    /\ \E p \in ProxyIDs, b \in SrvIDs : GetOriginalID(loaded.ce["group"], p, b).ok

(***************************************************************************)
(* Fan-out engine: processAllServers of each client.  The dispatch loop    *)
(* walks prx.config.Servers; a goroutine per admitted target backend       *)
(* rewrites the cloned request, sends it and releases its slot.            *)
(***************************************************************************)
S(n) == StrV(Itoa(n))

HostIDs == <<"host", "ids">>

GroupIDs == <<"group", "ids">>

ItemIDs == <<"item", "ids">>

ReqHostIDs(items) == Request("host.get", MapPut(EmptyMap, HostIDs, ListV(items)))

\* hostgroup.get with an empty params object
ReqGroups == Request("hostgroup.get", EmptyMap)

\* host.get with hostids ["10001", "20001"]
ReqScenario1 == ReqHostIDs(<<S(10001), S(20001)>>)

\* host.get with hostids ["10001", "20002"]
ReqTwoBackends == ReqHostIDs(<<S(10001), S(20002)>>)

\* host.get with hostids ["1"]
ReqScenario2 == ReqHostIDs(<<S(1)>>)

FanRequests ==
    { ReqScenario1, ReqTwoBackends, ReqScenario2, ReqNoParams, ReqGroups,
      ReqHostIDs(<<S(10)>>),
      ReqHostIDs(<<S(10), S(20002)>>),
      ReqHostIDs(<<S(20002), S(10)>>),
      Request("host.get", MapPut(MapPut(EmptyMap, HostIDs, ListV(<<S(10001)>>)),
                                 GroupIDs, ListV(<<S(5), S(20002)>>))),
      ReqHostIDs(<<FloatV(10001, FALSE), FloatV(20002, FALSE)>>),
      ReqHostIDs(<<S(10003)>>),
      ReqHostIDs(<<FloatV(0, FALSE), S(7)>>),
      Request("item.get", MapPut(EmptyMap, ItemIDs, ListV(<<FloatV(5, FALSE)>>))),
      Request("host.get", MapPut(EmptyMap, HostIDs, ScalarV(S(10001)))),
      Request("host.get", MapPut(MapPut(EmptyMap, HostIDs, ListV(<<S(10001)>>)),
                                 GroupIDs, ListV(<<S(20002)>>))) }

SemRequests == {ReqNoParams, ReqHostIDs(<<S(20002)>>)}

\* caches generateProxyID can have built: proxy IDs are multiples of 10
FanCaches ==
    LET empty == cacheEntryInit(cachedFields)
        one == [empty EXCEPT !["host"] = Set(@, 10, 1000, 1, "h1", 0)]
        two == [one EXCEPT !["host"] = Set(@, 10, 2000, 2, "h1", 0)]
    IN  {empty, one, two}

CacheOf(ct) ==
    /\ CacheType = ct
    /\ now = 0
    /\ lastOp = [kind |-> "none", p |-> 0, o |-> 0, b |-> 0, ttl |-> 0]
    /\ db = [has |-> FALSE, data |-> EmptyMap]
    /\ loaded = [has |-> FALSE, ce |-> EmptyMap]
    /\ nops = 0

InitFan == CodecIdle /\ GateIdle /\ AuxIdle /\ FanIdle /\ \E ct \in FanCaches : CacheOf(ct)

Perms(T) == {q \in [1..Cardinality(T) -> T] : \A i, j \in 1..Cardinality(T) : q[i] = q[j] => i = j}

ServerOf(sid) == Servers[CHOOSE i \in 1..Len(Servers) : Servers[i].ID = sid]

\* one object of a hostgroup.get result
GroupObj(id, name) == MapPut(MapPut(EmptyMap, GroupID, S(id)), NameKey, NameV(name))

\* what SendToZabbix returned: an error, or the decoded response object with
\* or without a result member
ErrorResponse == [ok |-> FALSE, hasResult |-> FALSE, result |-> NilResult]

NoResultResponse == [ok |-> TRUE, hasResult |-> FALSE, result |-> NilResult]

Response(result) == [ok |-> TRUE, hasResult |-> TRUE, result |-> result]

\* the answers of the backends: the group Linux has identifier 1 on backend
\* 1 and identifier 7 on backend 2
FanResponses ==
    [sid \in ServerIDs |->
        LET linux == GroupObj(IF sid = 1 THEN 1 ELSE 7, "Linux") IN
        { ErrorResponse, NoResultResponse,
          Response(ListResult(<<>>)),
          Response(ListResult(<<linux>>)),
          Response(ListResult(<<linux, GroupObj(3, "Windows")>>)),
          Response(MapResult(MapPut(EmptyMap, <<"count", "">>, S(sid)))),
          Response(ScalarResult) }]

SemResponses == [sid \in ServerIDs |-> {ErrorResponse, NoResultResponse}]

\* processAllServers up to the dispatch loop
Start(r, req) ==
    /\ pc[r] = "idle"
    /\ request' = [request EXCEPT ![r] = req]
    /\ \E idFields \in Perms(isIDBasedRequest(req)),
          keyOrder \in Perms(RoutingKeys(req.params)) :
         LET isIDRequest == Len(idFields) > 0
             targetServers == IF isIDRequest THEN getTargetServers(req, keyOrder)
                              ELSE getAllServers
         IN  /\ plan' = [plan EXCEPT ![r] = [isIDRequest |-> isIDRequest,
                                             idFields |-> idFields,
                                             targetServers |-> targetServers]]
             /\ IF isIDRequest /\ targetServers = {}
                THEN /\ pc' = [pc EXCEPT ![r] = "done"]
                     /\ ret' = [ret EXCEPT ![r] =
                                   Returned("notarget", NilResult, <<NoTargetText>>)]
                ELSE /\ pc' = [pc EXCEPT ![r] = "select"]
                     /\ UNCHANGED ret
    /\ UNCHANGED <<idx, task, sent, errCh, resultCh, uniqProxyIDs, cancelled,
                   requestSemaphore, codecVars, gateVars, auxVars, cbVars, cacheVars>>

\* the loop skips a server that is not a target
LoopSkip(r) ==
    /\ pc[r] = "select" /\ idx[r] <= Len(Servers)
    /\ Servers[idx[r]].ID \notin plan[r].targetServers
    /\ idx' = [idx EXCEPT ![r] = @ + 1]
    /\ UNCHANGED <<request, pc, plan, task, sent, errCh, resultCh, uniqProxyIDs,
                   cancelled, ret, requestSemaphore, codecVars, gateVars, auxVars, cbVars, cacheVars>>

\* prx.requestSemaphore <- struct{}{}
Acquire(r) ==
    /\ pc[r] = "select" /\ idx[r] <= Len(Servers)
    /\ Servers[idx[r]].ID \in plan[r].targetServers
    /\ SemaphoreHasRoom(requestSemaphore)
    /\ requestSemaphore' = requestSemaphore + 1
    /\ pc' = [pc EXCEPT ![r] = "acquired"]
    /\ UNCHANGED <<request, plan, idx, task, sent, errCh, resultCh, uniqProxyIDs,
                   cancelled, ret, codecVars, gateVars, auxVars, cbVars, cacheVars>>

\* AllowRequest refuses and the dispatch loop is left instead of continued
BreakerRefuseAbort(r) ==
    /\ pc[r] = "acquired"
    /\ requestSemaphore' = ReleaseSlot(requestSemaphore)
    /\ errCh' = [errCh EXCEPT ![r] =
                    Append(@, serverError(Servers[idx[r]].URL,
                                          BreakerOpenText(Servers[idx[r]].ID)))]
    /\ task' = [task EXCEPT ![r][Servers[idx[r]].ID] = "refused"]
    /\ idx' = [idx EXCEPT ![r] = Len(Servers) + 1]
    /\ pc' = [pc EXCEPT ![r] = "select"]
    /\ UNCHANGED <<request, plan, sent, resultCh, uniqProxyIDs, cancelled, ret,
                   codecVars, gateVars, auxVars, cbVars, cacheVars>>

\* AllowRequest refuses: the slot is given back, the error recorded and the
\* loop goes on with the next server
BreakerRefuse(r) ==
    /\ pc[r] = "acquired"
    /\ requestSemaphore' = ReleaseSlot(requestSemaphore)
    /\ errCh' = [errCh EXCEPT ![r] =
                    Append(@, serverError(Servers[idx[r]].URL,
                                          BreakerOpenText(Servers[idx[r]].ID)))]
    /\ task' = [task EXCEPT ![r][Servers[idx[r]].ID] = "refused"]
    /\ idx' = [idx EXCEPT ![r] = @ + 1]
    /\ pc' = [pc EXCEPT ![r] = "select"]
    /\ UNCHANGED <<request, plan, sent, resultCh, uniqProxyIDs, cancelled, ret,
                   codecVars, gateVars, auxVars, cbVars, cacheVars>>

\* AllowRequest admits: the goroutine of the server is started
Spawn(r) ==
    /\ pc[r] = "acquired"
    /\ task' = [task EXCEPT ![r][Servers[idx[r]].ID] = "running"]
    /\ idx' = [idx EXCEPT ![r] = @ + 1]
    /\ pc' = [pc EXCEPT ![r] = "select"]
    /\ UNCHANGED <<request, plan, sent, errCh, resultCh, uniqProxyIDs, cancelled, ret,
                   requestSemaphore, codecVars, gateVars, auxVars, cbVars, cacheVars>>

\* prx.cb.ReportFailure and prx.cb.ReportSuccess: what the circuit breaker
\* was told last about a backend
ReportFailure(sid) == breaker' = [breaker EXCEPT ![sid] = "failure"]

ReportSuccess(sid) == breaker' = [breaker EXCEPT ![sid] = "success"]

\* the select of the dispatch loop takes the cancellation: the failure is
\* reported to the circuit breaker and the server gets no goroutine
CancelSkip(r) ==
    /\ pc[r] = "select" /\ idx[r] <= Len(Servers)
    /\ Servers[idx[r]].ID \in plan[r].targetServers
    /\ cancelled[r]
    /\ task' = [task EXCEPT ![r][Servers[idx[r]].ID] = "cancelled"]
    /\ ReportFailure(Servers[idx[r]].ID)
    /\ idx' = [idx EXCEPT ![r] = @ + 1]
    /\ UNCHANGED <<request, pc, plan, sent, errCh, resultCh, uniqProxyIDs, cancelled,
                   ret, requestSemaphore, codecVars, gateVars, auxVars, cacheVars>>

\* the loop over the servers is over
LoopEnd(r) ==
    /\ pc[r] = "select" /\ idx[r] > Len(Servers)
    /\ pc' = [pc EXCEPT ![r] = "collect"]
    /\ UNCHANGED <<request, plan, idx, task, sent, errCh, resultCh, uniqProxyIDs,
                   cancelled, ret, requestSemaphore, codecVars, gateVars, auxVars, cbVars, cacheVars>>

\* the goroutine clones and rewrites the request, then calls SendToZabbix,
\* or returns (releasing its slot) when nothing is left for the server
Rewrite(r, sid) ==
    /\ task[r][sid] = "running"
    /\ LET rw == IF plan[r].isIDRequest
                 THEN RewriteParams(request[r].params, plan[r].idFields, sid, CacheType)
                 ELSE [outcome |-> "send", params |-> request[r].params]
       IN  IF rw.outcome = "send"
           THEN /\ task' = [task EXCEPT ![r][sid] = "sending"]
                /\ sent' = [sent EXCEPT ![r][sid] =
                              [has |-> TRUE, method |-> request[r].method,
                               auth |-> ServerOf(sid).Token, params |-> rw.params]]
                /\ UNCHANGED requestSemaphore
           ELSE /\ task' = [task EXCEPT ![r][sid] =
                              IF rw.outcome = "skip" THEN "skipped" ELSE "panicked"]
                /\ requestSemaphore' = ReleaseDeferred(requestSemaphore)
                /\ UNCHANGED sent
    /\ UNCHANGED <<request, pc, plan, idx, errCh, resultCh, uniqProxyIDs, cancelled,
                   ret, codecVars, gateVars, auxVars, cbVars, cacheVars>>

\* resultCh <- serverResult{...}: p is what processResponseIDs left
Processed(r, sid, p) ==
    /\ resultCh' = [resultCh EXCEPT ![r] = Append(@, serverResult(p.result, sid))]
    /\ uniqProxyIDs' = [uniqProxyIDs EXCEPT ![r] = p.uniq]
    /\ CacheType' = p.ct

\* SendToZabbix returns resp: an error is recorded, a result is rewritten by
\* processResponseIDs and sent to resultCh, and the slot is released
SendReturn(r, sid, resp) ==
    /\ task[r][sid] = "sending"
    /\ IF ~resp.ok
       THEN /\ task' = [task EXCEPT ![r][sid] = "failed"]
            /\ ReportFailure(sid)
            /\ errCh' = [errCh EXCEPT ![r] =
                            Append(@, serverError(ServerOf(sid).URL, SendErrorText))]
            /\ UNCHANGED <<resultCh, uniqProxyIDs, CacheType>>
       ELSE /\ task' = [task EXCEPT ![r][sid] = "succeeded"]
            /\ ReportSuccess(sid)
            /\ UNCHANGED errCh
            /\ IF resp.hasResult
               THEN Processed(r, sid, processResponseIDs(resp.result, sid, CacheType,
                                                         uniqProxyIDs[r], 0, now))
               ELSE UNCHANGED <<resultCh, uniqProxyIDs, CacheType>>
    /\ requestSemaphore' = ReleaseDeferred(requestSemaphore)
    /\ UNCHANGED <<request, pc, plan, idx, sent, cancelled, ret, now, lastOp, db,
                   loaded, nops, codecVars, gateVars, auxVars>>

\* wg.Wait returns, the channels are closed and the collecting loop drains
\* them and ends
Collect(r) ==
    /\ pc[r] = "collect"
    /\ \A sid \in ServerIDs : task[r][sid] \notin {"running", "sending"}
    /\ pc' = [pc EXCEPT ![r] = "done"]
    /\ ret' = [ret EXCEPT ![r] =
                  Returned("collected", Aggregate(resultCh[r]),
                           CollectErrors(errCh[r], Len(errCh[r])))]
    /\ UNCHANGED <<request, plan, idx, task, sent, errCh, resultCh, uniqProxyIDs,
                   cancelled, requestSemaphore, codecVars, gateVars, auxVars, cbVars, cacheVars>>

\* the deadline of the request context passes
Deadline(r) ==
    /\ pc[r] \in {"select", "acquired", "collect"}
    /\ ~cancelled[r]
    /\ cancelled' = [cancelled EXCEPT ![r] = TRUE]
    /\ UNCHANGED <<request, pc, plan, idx, task, sent, errCh, resultCh, uniqProxyIDs,
                   ret, requestSemaphore, codecVars, gateVars, auxVars, cbVars, cacheVars>>

\* the select of the collecting loop takes the cancellation after k errors
\* were taken from errCh: "request timeout" is appended to them
TimeoutReturn(r) ==
    /\ pc[r] = "collect"
    /\ cancelled[r]
    /\ \E k \in 0..Len(errCh[r]) :
          ret' = [ret EXCEPT ![r] =
                     Returned("timeout", NilResult,
                              Append(CollectErrors(errCh[r], k), TimeoutText))]
    /\ pc' = [pc EXCEPT ![r] = "done"]
    /\ UNCHANGED <<request, plan, idx, task, sent, errCh, resultCh, uniqProxyIDs,
                   cancelled, requestSemaphore, codecVars, gateVars, auxVars, cbVars, cacheVars>>

DispatchStep(r, Resps) ==
    \/ LoopSkip(r) \/ Acquire(r) \/ BreakerRefuse(r) \/ Spawn(r) \/ LoopEnd(r)
    \/ \E sid \in ServerIDs : Rewrite(r, sid)
    \/ \E sid \in ServerIDs : \E resp \in Resps[sid] : SendReturn(r, sid, resp)
    \/ Collect(r)

FanStep(r) ==
    \/ DispatchStep(r, FanResponses)
    \/ Deadline(r) \/ CancelSkip(r) \/ TimeoutReturn(r)

\* one client, any request
NextFan == (\E req \in FanRequests : Start(1, req)) \/ FanStep(1)

SpecFan == InitFan /\ [][NextFan]_vars

\* several clients competing for the semaphore
NextSem ==
    \E r \in Clients : (\E req \in SemRequests : Start(r, req)) \/ DispatchStep(r, SemResponses)

InitSem == CodecIdle /\ GateIdle /\ AuxIdle /\ FanIdle /\ CacheOf(cacheEntryInit(cachedFields))

SpecSem == InitSem /\ [][NextSem]_vars

\* goroutines that hold a slot: started and not yet returned
InFlight ==
    Cardinality({x \in Clients \X ServerIDs : task[x[1]][x[2]] \in {"running", "sending"}})

\* C8: with a request semaphore of size MaxRequests and NClients requests
\* fanned out concurrently, the number of outbound backend tasks in flight
\* never exceeds MaxRequests.
C8_InFlightBounded == InFlight <= MaxRequests

\* the semaphore is full and a client waits for a slot for its next target
C8_Witness ==
    /\ InFlight = MaxRequests
    /\ \E r \in Clients :
          /\ pc[r] = "select" /\ idx[r] <= Len(Servers)
          /\ Servers[idx[r]].ID \in plan[r].targetServers

\* the request of client r ran to its end: no circuit breaker refused it
\* and the deadline did not cut it short
Finished(r) ==
    /\ pc[r] = "done" /\ ret[r].how = "collected"
    /\ \A sid \in ServerIDs : task[r][sid] \notin {"refused", "cancelled"}

SentIDs(r, sid, key) == sent[r][sid].params[key].items

NumVal(id) == IF id.t = "string" THEN Atoi(id.s) ELSE id.n

\* every *ids field of the request is a sequence of values below 10
BelowTenOnly(req) ==
    /\ isIDBasedRequest(req) # {}
    /\ \A id \in RoutingIDs(req.params) : NumVal(id) < 10

\* C10 as stated: a request whose *ids sequence holds only a value below 10
\* is sent to every configured backend, with the field not filtered away.
C10_BroadcastUnfiltered ==
    (request[1] = ReqScenario2 /\ Finished(1)) =>
        \A sid \in ServerIDs : sent[1][sid].has /\ Len(SentIDs(1, sid, HostIDs)) >= 1

\* C10 amended: a request whose *ids sequences hold only values below 10
\* makes every configured backend a target, but no backend is sent the
\* request: each goroutine looks the value up in the translation cache,
\* which holds no proxy ID below 10, and returns without sending.
C10_BroadcastFilteredAway ==
    (BelowTenOnly(request[1]) /\ Finished(1)) =>
        /\ plan[1].targetServers = getAllServers
        /\ \A sid \in ServerIDs :
              task[1][sid] \in {"skipped", "panicked"} /\ ~sent[1][sid].has

C10_Witness ==
    /\ request[1] = ReqScenario2 /\ Finished(1)
    /\ CacheType["host"].ProxyID # EmptyMap
    /\ \A sid \in ServerIDs : task[1][sid] = "skipped"

\* what the client of request r gets as the aggregated result
Results(r) == ret[r].results

\* C11: when several top-level group objects of one client request get the
\* same hash-derived proxy ID, only the first appears in the aggregated
\* result: every group object of the aggregated list carries a proxy ID and
\* no two of them carry the same one.
C11_DuplicateGroupsDropped ==
    (ret[1].how = "collected" /\ Results(1).kind = "list") =>
        \A i, j \in 1..Len(Results(1).items) :
            LET a == Results(1).items[i]
                b == Results(1).items[j]
            IN  (GroupID \in DOMAIN a /\ GroupID \in DOMAIN b) =>
                    /\ a[GroupID] # Nil
                    /\ (i # j => a[GroupID] # b[GroupID])

\* the errors recorded for server sid that say its circuit breaker is open
BreakerErrors(r, sid) ==
    {i \in 1..Len(errCh[r]) :
        errCh[r][i] = serverError(ServerOf(sid).URL, BreakerOpenText(sid))}

\* the dispatch loop of client r went over every server
Dispatched(r) == pc[r] \in {"collect", "done"}

\* slots taken by a dispatcher that has not yet asked the circuit breaker
SlotsInHand == Cardinality({r \in Clients : pc[r] = "acquired"})

\* C12: when the circuit breaker refuses a target backend, that backend is
\* never sent the request, exactly one error "server <id>: circuit breaker
\* open" is recorded for it, its semaphore slot is released before the
\* dispatcher moves on (the slots taken are those of the goroutines in flight
\* and of a dispatcher between acquiring and asking the breaker), and the
\* remaining targets are still dispatched (unless the deadline cut the loop).
C12_BreakerRefusal ==
    \A sid \in ServerIDs :
        task[1][sid] = "refused" =>
            /\ ~sent[1][sid].has
            /\ Cardinality(BreakerErrors(1, sid)) = 1
            /\ requestSemaphore = InFlight + SlotsInHand
            /\ (Dispatched(1) /\ ~cancelled[1]) =>
                   \A t \in plan[1].targetServers \cap ServerIDs : task[1][t] # "none"
            /\ ret[1].how = "collected" =>
                   \E i \in 1..Len(ret[1].errors) :
                       ret[1].errors[i] =
                           <<ServerOf(sid).URL, ": ">> \o BreakerOpenText(sid)

\* backend 1 was refused, backend 2 was sent the request and answered
C12_Witness ==
    /\ task[1][1] = "refused" /\ task[1][2] = "succeeded"
    /\ sent[1][2].has /\ ~sent[1][1].has
    /\ ret[1].how = "collected"
    /\ requestSemaphore = 0

\* C13: when the deadline expires before aggregation has finished, the
\* fan-out returns no result and its error list is exactly the single
\* element "request timeout".
C13_TimeoutSingleError ==
    ret[1].how = "timeout" =>
        /\ Results(1) = NilResult
        /\ ret[1].errors = <<TimeoutText>>

\* no result was returned: nil, an empty sequence or an empty object
NoResults(results) ==
    \/ results.kind = "nil"
    \/ results.kind = "list" /\ results.items = <<>>
    \/ results.kind = "map" /\ DOMAIN results.obj = {}

\* C14: the response envelope follows the fan-out outcome: no results and
\* at least one error give an error envelope with every error string; no
\* results and no error give result []; results give a result envelope with
\* those results and without the errors.
C14_EnvelopeFollowsOutcome ==
    ret[1].has =>
        LET env == ret[1].response IN
        /\ (NoResults(Results(1)) /\ ret[1].errors # <<>>) =>
               env.kind = "error" /\ env.error = ret[1].errors
        /\ (NoResults(Results(1)) /\ ret[1].errors = <<>>) =>
               env.kind = "result" /\ env.result = ListResult(<<>>)
        /\ ~NoResults(Results(1)) =>
               env.kind = "result" /\ env.result = Results(1) /\ env.error = <<>>

\* partial success: one backend failed, the other returned a group
C14_Witness ==
    /\ ret[1].has /\ ret[1].errors # <<>>
    /\ Results(1).kind = "list" /\ Len(Results(1).items) = 1
    /\ ret[1].response.kind = "result" /\ ret[1].response.result = Results(1)

\* backendOf: the last decimal digit of an identifier, 0 for an identifier
\* below 10
BackendOf(id) == IF NumVal(id) < 10 THEN 0 ELSE NumVal(id) % 10

C20_NoTargetError ==
    (ret[1].has /\ plan[1].isIDRequest
        /\ plan[1].targetServers \cap getAllServers = {}) =>
        /\ ret[1].response.kind = "error"
        /\ \E i \in 1..Len(ret[1].response.error) :
               ret[1].response.error[i] = NoTargetText


(***************************************************************************)
(* Request gate: a request arrives under a configuration and is served.    *)
(***************************************************************************)
InitGate ==
    /\ CodecIdle /\ CacheIdle /\ FanIdle /\ AuxIdle
    /\ \E cfg \in GateConfigs, r \in HTTPRequests :
          http = [served |-> FALSE, cfg |-> cfg, req |-> r,
                  res |-> GateResult(0, FALSE, "")]

\* one HTTP transaction through AuthMiddleware
Serve ==
    /\ ~http.served
    /\ http' = [http EXCEPT !.served = TRUE,
                            !.res = AuthMiddleware(http.cfg, http.req)]
    /\ UNCHANGED <<codecVars, cacheVars, fanVars, auxVars, cbVars>>

NextGate == Serve

SpecGate == InitGate /\ [][NextGate]_vars

\* the request under the gate and what the gate did with it
Req == http.req

Res == http.res

\* a POST with a JSON content type whose body is a JSON-RPC 2.0 object
JSONRPCPost ==
    /\ Req.Method = "POST"
    /\ ContainsApplicationJSON(Req.ContentType)
    /\ Req.body.kind = "object" /\ Req.body.jsonrpc = "2.0"

\* the method is a string ending in ".create", "user.login" or "apiinfo.version"
ShortCircuitMethod ==
    /\ Req.body.methodIsString
    /\ \/ Req.body.method[2] = "create"
       \/ Req.body.method \in {<<"user", "login">>, <<"apiinfo", "version">>}

\* the favicon, metrics and health paths
ExemptPath == Req.Path \in {"/favicon.ico", metricPath, "/health"}

\* C15 as stated: a POST with JSON content type and jsonrpc "2.0" whose
\* method ends in ".create" or is "user.login" or "apiinfo.version" is
\* answered by the gate with HTTP 200, with or without valid credentials, and
\* the next handler is not invoked.
C15_SpecialMethodsAnswered ==
    (http.served /\ JSONRPCPost /\ ShortCircuitMethod) =>
        Res.status = StatusOK /\ ~Res.next

\* C15 amended: such a POST is answered by the gate with HTTP 200 and not
\* forwarded, whatever the credentials, when it is for a path other than the
\* metrics and health paths and its Content-Length is not above the body
\* limit; on the metrics and health paths it is forwarded to the next
\* handler, and above the body limit it is answered 413.
C15_SpecialMethodsAnsweredInLimit ==
    (http.served /\ JSONRPCPost /\ ShortCircuitMethod) =>
        /\ (~ForwardedPath(Req.Path) /\ Req.ContentLength <= http.cfg.maxReqBodySize)
              => (Res.status = StatusOK /\ ~Res.next)
        /\ ForwardedPath(Req.Path) => Res.next
        /\ (~ExemptPath /\ Req.ContentLength > http.cfg.maxReqBodySize)
              => (Res.status = StatusRequestEntityTooLarge /\ ~Res.next)

\* user.login without an Authorization header, under a configured token, is
\* answered by the gate
C15_Witness ==
    /\ http.served /\ JSONRPCPost /\ ~ExemptPath
    /\ Req.body.methodIsString /\ Req.body.method = <<"user", "login">>
    /\ http.cfg.token # "" /\ Req.Authorization = NoAuthorization
    /\ Res = GateResult(StatusOK, FALSE, "faketoken123")

\* the credentials the configuration asks for
PassesAuthentication ==
    /\ http.cfg.token # "" =>
          (Req.Authorization.scheme = "Bearer" /\ Req.Authorization.secret = http.cfg.token)
    /\ (http.cfg.token = "" /\ http.cfg.login # "" /\ http.cfg.password # "") =>
          /\ Req.Authorization.scheme = "Basic"
          /\ Req.Authorization.user = http.cfg.login
          /\ Req.Authorization.secret = http.cfg.password

C17_NonPostRefused ==
    (http.served /\ Req.Method # "POST" /\ ~(Req.Method = "GET" /\ Req.Path = "/")
       /\ ~ExemptPath) =>
        Res.status = StatusMethodNotAllowed /\ ~Res.next

\* the four shape failures of a POST, in the order they are checked
ShapeFailure ==
    IF ~ContainsApplicationJSON(Req.ContentType) THEN StatusUnsupportedMediaType
    ELSE IF Req.ContentLength > http.cfg.maxReqBodySize THEN StatusRequestEntityTooLarge
    ELSE IF Req.body.kind = "invalidJSON" THEN StatusBadRequest
    ELSE IF Req.body.kind = "object" /\ Req.body.jsonrpc # "2.0" THEN StatusBadRequest
    ELSE 0

\* C18 as stated: a POST with a non-JSON content type, a content length
\* above the body limit, a body that is not valid JSON, or a jsonrpc member
\* other than "2.0" is ended with 415, 413, 400 and 400, checked in that
\* order, and the next handler is not invoked, whatever the credentials.
C18_ShapeChecked ==
    (http.served /\ Req.Method = "POST" /\ ShapeFailure # 0) =>
        Res.status = ShapeFailure /\ ~Res.next

\* C18 amended: the same for a POST to a path other than the favicon,
\* metrics and health paths; a POST to the metrics or health path is
\* forwarded to the next handler without any of the checks, and one to the
\* favicon path is answered with the icon.
C18_ShapeCheckedOffExemptPaths ==
    (http.served /\ Req.Method = "POST" /\ ShapeFailure # 0) =>
        /\ ~ExemptPath => (Res.status = ShapeFailure /\ ~Res.next)
        /\ ForwardedPath(Req.Path) => Res.next
        /\ Req.Path = "/favicon.ico" => (Res.status = StatusOK /\ ~Res.next)

\* a POST over the body limit whose body is not JSON-RPC 2.0 either and that
\* carries the configured token is answered 413
C18_Witness ==
    /\ http.served /\ Req.Method = "POST" /\ ~ExemptPath
    /\ ContainsApplicationJSON(Req.ContentType)
    /\ Req.ContentLength > http.cfg.maxReqBodySize
    /\ Req.body.kind = "object" /\ Req.body.jsonrpc # "2.0"
    /\ http.cfg.token # "" /\ Req.Authorization = BearerAuthorization("Bearer", http.cfg.token)
    /\ Res = GateResult(StatusRequestEntityTooLarge, FALSE, "Request Entity Too Large")

(***************************************************************************)
(* deepClone: a request is cloned and the clone is mutated in place.       *)
(***************************************************************************)
\* the values a slot of node a can hold in a heap of k nodes
NodeValues(a, k) == {Scalar(0)} \cup {Ref(b) : b \in (a + 1)..k}

\* the nodes that can stand at address a; the request at address 1 is a map
NodesAt(a, k) ==
    {MapNode(f) : f \in UNION {[K -> NodeValues(a, k)] : K \in SUBSET CloneKeys}}
    \cup (IF a = 1 THEN {}
          ELSE {ListNode(<<>>)} \cup {ListNode(<<v>>) : v \in NodeValues(a, k)})

RECURSIVE HeapsFrom(_, _)
HeapsFrom(a, k) ==
    IF a > k THEN {<<>>}
    ELSE {<<n>> \o rest : n \in NodesAt(a, k), rest \in HeapsFrom(a + 1, k)}

\* the slots of the heap that hold address b
SlotsOf(h, b) ==
    {<<a, key>> : a \in 1..Len(h), key \in CloneKeys} \cap
        {x \in (1..Len(h)) \X CloneKeys : x[2] \in DOMAIN h[x[1]].f /\ h[x[1]].f[x[2]] = Ref(b)}

ItemsOf(h, b) == {a \in 1..Len(h) : h[a].items = <<Ref(b)>>}

\* a decoded JSON document is a tree: every node but the root is held once
TreeShaped(h) ==
    \A b \in 2..Len(h) : Cardinality(SlotsOf(h, b)) + Cardinality(ItemsOf(h, b)) = 1

SourceHeaps == UNION {{h \in HeapsFrom(1, k) : TreeShaped(h)} : k \in 1..MaxNodes}

InitClone ==
    /\ CodecIdle /\ CacheIdle /\ FanIdle /\ GateIdle
    /\ WorkersIdle /\ SweepIdle /\ GenIdle /\ MoreIdle /\ BreakerIdle
    /\ \E h \in SourceHeaps :
          clone = [stage |-> "source", heap |-> h, source |-> h, cloned |-> Scalar(0),
                   nmut |-> 0]

\* serverRequest := deepClone(request): c is what the call returned
Cloned(c) ==
    clone' = [clone EXCEPT !.stage = "cloned", !.heap = c.heap, !.cloned = c.v]

Clone ==
    /\ clone.stage = "source"
    /\ Cloned(deepClone(Ref(1), clone.heap))
    /\ UNCHANGED <<codecVars, cacheVars, fanVars, gateVars, workerVars, sweepVars, genVars, moreVars, cbVars>>

\* m[key] = 9 or delete(m, key) on a map reachable from the clone
MutateMap ==
    /\ clone.stage = "cloned" /\ clone.nmut < MaxMutations
    /\ \E a \in Reachable(clone.heap, clone.cloned.n), key \in CloneKeys :
          /\ clone.heap[a].kind = "map"
          /\ \/ clone' = [clone EXCEPT !.heap[a].f = MapPut(@, key, Scalar(9)),
                                       !.nmut = @ + 1]
             \/ /\ key \in DOMAIN clone.heap[a].f
                /\ clone' = [clone EXCEPT
                                !.heap[a].f = MapRestrict(@, DOMAIN @ \ {key}),
                                !.nmut = @ + 1]
    /\ UNCHANGED <<codecVars, cacheVars, fanVars, gateVars, workerVars, sweepVars, genVars, moreVars, cbVars>>

\* s[i] = 9 on a slice reachable from the clone
MutateList ==
    /\ clone.stage = "cloned" /\ clone.nmut < MaxMutations
    /\ \E a \in Reachable(clone.heap, clone.cloned.n) :
          /\ clone.heap[a].kind = "list"
          /\ \E i \in 1..Len(clone.heap[a].items) :
                clone' = [clone EXCEPT !.heap[a].items[i] = Scalar(9), !.nmut = @ + 1]
    /\ UNCHANGED <<codecVars, cacheVars, fanVars, gateVars, workerVars, sweepVars, genVars, moreVars, cbVars>>

NextClone == Clone \/ MutateMap \/ MutateList

SpecClone == InitClone /\ [][NextClone]_vars

\* C21: mutating any map or sequence reachable from deepClone(request), at
\* any depth and under any key, leaves the source request unchanged: every
\* node of the source is what it was before the clone was made.
C21_SourceUnchanged ==
    clone.stage = "cloned" =>
        \A a \in 1..Len(clone.source) : clone.heap[a] = clone.source[a]


(***************************************************************************)
(* Fan-out: isolation of failures, per-backend rewrite, slots, aggregation *)
(***************************************************************************)
\* the entries of resultCh that came from server sid
ResultsFrom(r, sid) == {i \in 1..Len(resultCh[r]) : resultCh[r][i].serverID = sid}

\* the result sent to resultCh is part of what the fan-out returned
Included(res, results) ==
    CASE res.kind = "list" ->
           \A i \in 1..Len(res.items) :
               results.kind = "list" /\ \E j \in 1..Len(results.items) :
                                            results.items[j] = res.items[i]
      [] res.kind = "map" ->
           results.kind = "map" =>
               \A key \in DOMAIN res.obj : key \in DOMAIN results.obj
      [] OTHER -> TRUE

\* a backend of request r failed: its Send returned an error or its circuit
\* breaker refused it
Failed(r, sid) == task[r][sid] \in {"failed", "refused"}

\* the other backends of a collected request whose deadline did not expire
OthersServed(r, sid) ==
    \A t \in (plan[r].targetServers \cap ServerIDs) \ {sid} :
        /\ task[r][t] \in {"failed", "refused", "succeeded", "skipped", "panicked"}
        /\ task[r][t] \in {"failed", "succeeded"} <=> sent[r][t].has
        /\ \A i \in ResultsFrom(r, t) : Included(resultCh[r][i].result, Results(r))

\* a step that records an error cancels nothing and touches no other task
ErrorStepIsLocal ==
    errCh' # errCh =>
        /\ cancelled' = cancelled
        /\ \A t \in ServerIDs : task'[1][t] # task[1][t] => Failed(1, t)'
        /\ Cardinality({t \in ServerIDs : task'[1][t] # task[1][t]}) = 1

\* C23: a Send error or a circuit-breaker refusal for one backend never
\* cancels or suppresses the requests to the other backends: the step that
\* records the error leaves the cancellation and the other tasks alone, and
\* while the deadline has not expired every other target is still
\* dispatched, every admitted one with something to send is sent, and its
\* result is part of what is returned.
C23_FailureIsolated ==
    /\ [][ErrorStepIsLocal]_vars
    /\ [](\A sid \in ServerIDs :
            (Failed(1, sid) /\ ret[1].how = "collected" /\ ~cancelled[1]) =>
                OthersServed(1, sid))

\* backend 1 failed in Send, backend 2 answered with a group that is returned
C23_Witness ==
    /\ task[1][1] = "failed" /\ task[1][2] = "succeeded" /\ ~cancelled[1]
    /\ ret[1].how = "collected" /\ Len(ret[1].errors) = 1
    /\ ResultsFrom(1, 2) # {} /\ Results(1).kind = "list" /\ Len(Results(1).items) = 1


\* the numbers of a sequence of identifiers
NumSeq(items) == [i \in 1..Len(items) |-> NumVal(items[i])]

\* the identifier v of a field of entity type ftype is for backend b: it
\* carries the digit of b, or it carries no digit and the translation cache
\* ct maps it to an original of b
ForBackend(v, b, ftype, ct) ==
    \/ BackendOf(v) = b
    \/ /\ BackendOf(v) = 0
       /\ ftype \in DOMAIN ct
       /\ GetOriginalID(ct[ftype], NumVal(v), b).ok

\* the original identifier on backend b that v stands for
OriginalFor(v, b, ftype, ct) ==
    IF BackendOf(v) = b THEN NumVal(v) \div Radix
    ELSE GetOriginalID(ct[ftype], NumVal(v), b).v

\* the originals of the identifiers of items that are for b, in their order
RECURSIVE ExpectedIDs(_, _, _, _)
ExpectedIDs(items, b, ftype, ct) ==
    IF Len(items) = 0 THEN <<>>
    ELSE IF ForBackend(Head(items), b, ftype, ct)
         THEN <<OriginalFor(Head(items), b, ftype, ct)>>
                  \o ExpectedIDs(Tail(items), b, ftype, ct)
         ELSE ExpectedIDs(Tail(items), b, ftype, ct)

\* the step in which the goroutine of backend b hands its request to Send
SendsTo(b) == ~sent[1][b].has /\ sent'[1][b].has

\* C25: every backend that is sent an ID-based request receives, in each
\* matched *ids sequence and in the original order, exactly the decoded
\* originals of the identifiers that carry its digit and the cache-resolved
\* originals of the identifiers without a digit that the cache maps to it,
\* and no identifier of another backend.
C25_OwnIDsOnly ==
    [][\A b \in ServerIDs :
          (SendsTo(b) /\ plan[1].isIDRequest) =>
              \A i \in 1..Len(plan[1].idFields) :
                  LET key == plan[1].idFields[i] IN
                  NumSeq(sent'[1][b].params[key].items) =
                      ExpectedIDs(request[1].params[key].items, b, key[1], CacheType)]_vars

\* hostids ["10", "20002"] with proxy ID 10 cached for both backends: backend
\* 1 was sent [1000] and backend 2 was sent [2000, 2000]
C25_Witness ==
    /\ request[1] = ReqHostIDs(<<S(10), S(20002)>>)
    /\ sent[1][1].has /\ NumSeq(SentIDs(1, 1, HostIDs)) = <<1000>>
    /\ sent[1][2].has /\ NumSeq(SentIDs(1, 2, HostIDs)) = <<2000, 2000>>


\* filtering leaves a matched *ids sequence of the request empty for b
NothingFor(b) ==
    /\ plan[1].isIDRequest
    /\ \E i \in 1..Len(plan[1].idFields) :
          LET key == plan[1].idFields[i] IN
          ExpectedIDs(request[1].params[key].items, b, key[1], CacheType) = <<>>

\* the errors recorded for the server b
ErrorsFrom(r, b) == {i \in 1..Len(errCh[r]) : errCh[r][i].url = ServerOf(b).URL}

\* the goroutine of b ended without sending
EndedUnsent(b) == task[1][b] \in {"skipped", "panicked"}

\* C26: when filtering leaves a matched *ids sequence empty for a backend,
\* its goroutine ends without sending the request and gives its semaphore
\* slot back in that step, and neither a result nor an error is ever
\* recorded for that backend.
C26_EmptyFilterSkips ==
    /\ [][\A b \in ServerIDs :
            (task[1][b] = "running" /\ task'[1][b] # "running" /\ NothingFor(b)) =>
                /\ EndedUnsent(b)' /\ ~sent'[1][b].has
                /\ requestSemaphore' = requestSemaphore - 1
                /\ errCh' = errCh /\ resultCh' = resultCh]_vars
    /\ [](\A b \in ServerIDs :
            EndedUnsent(b) =>
                /\ ~sent[1][b].has
                /\ ErrorsFrom(1, b) = {} /\ ResultsFrom(1, b) = {}
                /\ requestSemaphore = InFlight + SlotsInHand)

\* hostids ["10"] with the proxy ID cached for backend 1 only: backend 1 was
\* sent the request, backend 2 was left out without a trace
C26_Witness ==
    /\ request[1] = ReqHostIDs(<<S(10)>>)
    /\ task[1][1] = "succeeded" /\ sent[1][1].has
    /\ task[1][2] = "skipped" /\ ~sent[1][2].has
    /\ ret[1].how = "collected" /\ ret[1].errors = <<>> /\ requestSemaphore = 0

\* the params keys ending in "ids" that hold a single value, not a sequence
ScalarIDKeys(req) ==
    IF req.hasParams
    THEN {key \in DOMAIN req.params : HasSuffix(key, "ids") /\ ~req.params[key].list}
    ELSE {}

\* C27: a scalar value under a params key ending in "ids" is rewritten per
\* backend: a backend that is sent the request is one the value is for, and
\* it receives the original the value stands for on it, never the proxy ID
\* as the client wrote it.
C27_ScalarRewritten ==
    \A b \in ServerIDs :
        sent[1][b].has =>
            \A key \in ScalarIDKeys(request[1]) :
                LET v == request[1].params[key].items[1] IN
                /\ ForBackend(v, b, key[1], CacheType)
                /\ NumVal(sent[1][b].params[key].items[1]) =
                       OriginalFor(v, b, key[1], CacheType)

\* the goroutine of b holds a slot
HoldsSlot(b) == task[1][b] \in {"running", "sending"}

\* the goroutines that end in the step
Ending == {b \in ServerIDs : HoldsSlot(b) /\ ~HoldsSlot(b)'}

\* the dispatcher gives its slot back after the circuit breaker refused
Refusing == pc[1] = "acquired" /\ pc'[1] # "acquired" /\ InFlight' = InFlight

\* C28: every semaphore slot a fan-out acquired is released exactly once on
\* every path: a step releases one slot exactly when a goroutine ends
\* (nothing to send, panic, Send error, Send success, before or after the
\* deadline) or the dispatcher was refused by the circuit breaker, the slots
\* held are those of the goroutines in flight and of the dispatcher, and once
\* the request is over and every Send has returned no slot is held.
C28_SlotsReleasedOnce ==
    /\ [][/\ Ending # {} => requestSemaphore' = requestSemaphore - 1
          /\ Refusing => requestSemaphore' = requestSemaphore - 1
          /\ requestSemaphore' < requestSemaphore =>
                 Cardinality(Ending) + (IF Refusing THEN 1 ELSE 0) = 1]_vars
    /\ [](requestSemaphore = InFlight + SlotsInHand)
    /\ []((pc[1] = "done" /\ InFlight = 0) => requestSemaphore = 0)

\* the deadline cut the collecting loop short; one goroutine had been in
\* Send, the other backend was refused or its goroutine ended without
\* sending; every Send has returned and every slot is back
C28_Witness ==
    /\ ret[1].how = "timeout" /\ InFlight = 0 /\ requestSemaphore = 0
    /\ \E b \in ServerIDs : task[1][b] \in {"failed", "succeeded"}
    /\ \E b \in ServerIDs : task[1][b] \in {"panicked", "skipped", "refused"}

\* the items of the sequence results of the channel, in arrival order
RECURSIVE SequenceItems(_)
SequenceItems(ch) ==
    IF Len(ch) = 0 THEN <<>>
    ELSE (IF Head(ch).result.kind = "list" THEN Head(ch).result.items ELSE <<>>)
             \o SequenceItems(Tail(ch))

\* C29: if at least one successful backend result of a request is a
\* sequence, an empty one included, the result member of the response is the
\* concatenation of all sequence results in arrival order and no map result
\* appears in it (stated for the requests no backend of which failed, where
\* the response is a result envelope).
C29_SequencesWin ==
    (/\ ret[1].how = "collected" /\ ret[1].errors = <<>>
     /\ \E i \in 1..Len(resultCh[1]) : resultCh[1][i].result.kind = "list") =>
        /\ ret[1].response.kind = "result"
        /\ ret[1].response.result = ListResult(SequenceItems(resultCh[1]))

(***************************************************************************)
(* generateProxyID applied to the objects of backend responses, one after  *)
(* another, on the translation cache of the process.                       *)
(***************************************************************************)
\* the group objects the backends answer with: the identifier is a JSON
\* string, an int, or a JSON number (float64 once decoded), and the name may
\* be missing
GenObjects ==
    {MapPut(MapPut(EmptyMap, GroupID, id), NameKey, NameV(name)) :
        id \in {S(1), IntV(2), FloatV(1, FALSE)}, name \in {"Linux", "Windows"}}
    \cup {MapPut(EmptyMap, GroupID, id) : id \in {S(1), IntV(2)}}

InitGen ==
    /\ CodecIdle /\ CacheIdle /\ FanIdle /\ GateIdle
    /\ CloneIdle /\ WorkersIdle /\ SweepIdle /\ GenIdle /\ MoreIdle /\ BreakerIdle

\* what a call of generateProxyID left: g is what the call returned
Generated(fieldType, data, serverID, g) ==
    /\ gen' = [stage |-> "called", ftype |-> fieldType, data |-> data,
               serverID |-> serverID, before |-> CacheType[fieldType],
               err |-> g.err, id |-> g.id, ncalls |-> gen.ncalls + 1]
    /\ CacheType' = g.ct

\* processCachedIDField calls generateProxyID for an object of server b
Generate ==
    /\ gen.ncalls < MaxCalls
    /\ \E data \in GenObjects, b \in ServerIDs :
          Generated("group", data, b, generateProxyID("group", data, b, CacheType, now))
    /\ UNCHANGED <<now, lastOp, db, loaded, nops, codecVars, fanVars, gateVars,
                   cloneVars, workerVars, sweepVars, moreVars, cbVars>>

NextGen == Generate

SpecGen == InitGen /\ [][NextGen]_vars

\* the original identifier of the object of the last call
GenOrig == NumVal(gen.data[<<gen.ftype, "id">>])

\* the proxy ID derived from the name of the object of the last call
GenHashed == GoRem(fnv32aMod(gen.data[NameKey].s), 10000000) * 10

\* C30: for a hash-cached entity type, rewriting a response object for
\* (original ID o, backend b) returns the proxy ID already cached for (o, b)
\* when one exists, whatever the name of the object; otherwise it derives the
\* proxy ID p from the name and stores it, so that afterwards
\* GetOriginalID(p, b) = o and GetProxyID(o, b) = p.
C30_CachedOrStored ==
    gen.stage = "called" =>
        IF GetProxyID(gen.before, GenOrig, gen.serverID).ok
        THEN /\ ~gen.err
             /\ NumVal(gen.id) = GetProxyID(gen.before, GenOrig, gen.serverID).v
        ELSE NameKey \in DOMAIN gen.data =>
                 /\ ~gen.err /\ NumVal(gen.id) = GenHashed
                 /\ GetOriginalID(CacheType[gen.ftype], GenHashed, gen.serverID)
                        = Found(GenOrig)
                 /\ GetProxyID(CacheType[gen.ftype], GenOrig, gen.serverID)
                        = Found(GenHashed)

(***************************************************************************)
(* Background workers of a cache: start, Stop and the goroutines of        *)
(* startCleanup and startAutoSave.  A context is a number, bg.done the set *)
(* of cancelled contexts, bg.workers the goroutines that have not returned.*)
(***************************************************************************)
InitWorkers ==
    /\ CodecIdle /\ CacheIdle /\ FanIdle /\ GateIdle
    /\ CloneIdle /\ SweepIdle /\ GenIdle /\ MoreIdle /\ BreakerIdle
    /\ \E database \in {"nil", "open"} : bg = NewWorkers(database)

Worker(kind, ctx) == [kind |-> kind, ctx |-> ctx]

\* startCleanup and startAutoSave: no goroutine for an interval of 0
Started(cleanInterval, autoSave, ctx) ==
    (IF cleanInterval = 0 THEN {} ELSE {Worker("cleanup", ctx)})
        \cup (IF autoSave = 0 THEN {} ELSE {Worker("autosave", ctx)})

\* start that does not look at cancelFunc
startUnguarded(cleanInterval, autoSave) ==
    /\ bg.ncalls < MaxStartStop
    /\ bg' = [bg EXCEPT !.cancelFunc = bg.nctx + 1,
                        !.nctx = @ + 1,
                        !.workers = @ \cup Started(cleanInterval, autoSave, bg.nctx + 1),
                        !.ncalls = @ + 1, !.nstart = @ + 1,
                        !.last = [op |-> "start", ignored |-> FALSE]]
    /\ UNCHANGED <<codecVars, cacheVars, fanVars, gateVars, cloneVars, sweepVars, genVars, moreVars, cbVars>>

\* CacheEntry.start
start(cleanInterval, autoSave) ==
    /\ bg.ncalls < MaxStartStop
    /\ IF bg.cancelFunc # 0
       THEN bg' = [bg EXCEPT !.ncalls = @ + 1, !.nstart = @ + 1,
                             !.last = [op |-> "start", ignored |-> TRUE]]
       ELSE bg' = [bg EXCEPT !.cancelFunc = bg.nctx + 1,
                             !.nctx = @ + 1,
                             !.workers = @ \cup Started(cleanInterval, autoSave,
                                                        bg.nctx + 1),
                             !.ncalls = @ + 1, !.nstart = @ + 1,
                             !.last = [op |-> "start", ignored |-> FALSE]]
    /\ UNCHANGED <<codecVars, cacheVars, fanVars, gateVars, cloneVars, sweepVars, genVars, moreVars, cbVars>>

\* CacheEntry.Stop: the context is cancelled and forgotten; the call does
\* not wait for the goroutines; with a database the cache is saved (an error
\* of save is logged) and the database closed
Stop ==
    /\ bg.ncalls < MaxStartStop
    /\ bg' = [bg EXCEPT !.cancelFunc = 0,
                        !.done = IF bg.cancelFunc # 0 THEN @ \cup {bg.cancelFunc} ELSE @,
                        !.db = IF @ = "nil" THEN "nil" ELSE "closed",
                        !.ncalls = @ + 1,
                        !.last = [op |-> "Stop", ignored |-> bg.cancelFunc = 0]]
    /\ UNCHANGED <<codecVars, cacheVars, fanVars, gateVars, cloneVars, sweepVars, genVars, moreVars, cbVars>>

\* case <-ticker.C of a worker: the select may take it also when the
\* context is already cancelled
WorkerTick ==
    /\ \E w \in bg.workers :
          bg' = [bg EXCEPT !.last = [op |-> w.kind, ignored |-> w.ctx \in bg.done]]
    /\ UNCHANGED <<codecVars, cacheVars, fanVars, gateVars, cloneVars, sweepVars, genVars, moreVars, cbVars>>

\* case <-ctx.Done() of a worker: the goroutine returns
WorkerExit ==
    /\ \E w \in bg.workers :
          /\ w.ctx \in bg.done
          /\ bg' = [bg EXCEPT !.workers = @ \ {w}]
    /\ UNCHANGED <<codecVars, cacheVars, fanVars, gateVars, cloneVars, sweepVars, genVars, moreVars, cbVars>>

NextWorkers ==
    \/ \E cleanInterval, autoSave \in {0, 1} : start(cleanInterval, autoSave)
    \/ Stop
    \/ WorkerTick
    \/ WorkerExit

SpecWorkers == InitWorkers /\ [][NextWorkers]_vars

\* the goroutines of a kind that have not returned
Running(kind) == {w \in bg.workers : w.kind = kind}

\* those of them whose context is not cancelled
Live(kind) == {w \in Running(kind) : w.ctx \notin bg.done}

\* C22 as stated: after any sequence of start and Stop calls at most one
\* eviction worker and at most one snapshot worker are running.
C22_AtMostOneRunning ==
    \A kind \in {"cleanup", "autosave"} : Cardinality(Running(kind)) <= 1

\* C22 amended: after any sequence of start and Stop calls at most one
\* eviction worker and at most one snapshot worker have a context that is
\* not cancelled, and it is the context start registered; a start while a
\* cancel function is registered starts nothing; Stop leaves no such worker,
\* and without a prior start it completes and no worker runs at all.  (A
\* worker whose context Stop cancelled may still be running when a later
\* start has started its successor.)
C22_AtMostOneLive ==
    /\ [](\A kind \in {"cleanup", "autosave"} :
             /\ Cardinality(Live(kind)) <= 1
             /\ \A w \in Live(kind) : w.ctx = bg.cancelFunc)
    /\ [][(bg.cancelFunc # 0 /\ bg'.nstart # bg.nstart) =>
              /\ bg'.workers = bg.workers
              /\ bg'.cancelFunc = bg.cancelFunc /\ bg'.last.ignored]_vars
    /\ [](bg.last.op = "Stop" =>
             bg.cancelFunc = 0 /\ Live("cleanup") = {} /\ Live("autosave") = {})
    /\ [](bg.nstart = 0 => bg.workers = {})

\* start, start again, then Stop and a new start while the workers of the
\* first start have not returned yet
C22_Witness ==
    /\ bg.last = [op |-> "start", ignored |-> FALSE] /\ bg.nctx = 2
    /\ Cardinality(Running("cleanup")) = 2 /\ Cardinality(Live("cleanup")) = 1
    /\ Cardinality(Live("autosave")) = 1
    /\ bg.ncalls = 4

(***************************************************************************)
(* cleanup running concurrently with Set on one cache: cleanup computes    *)
(* its removal list under the read lock, gives the lock up, and Delete     *)
(* takes the write lock later; a Set can take the write lock in between.   *)
(***************************************************************************)
InitSweep ==
    /\ CodecIdle /\ CacheIdle /\ FanIdle /\ GateIdle
    /\ CloneIdle /\ WorkersIdle /\ SweepIdle /\ GenIdle /\ MoreIdle /\ BreakerIdle

\* cleanup from c.mu.RLock() to c.mu.RUnlock(): the removal list
SweepScan ==
    /\ sweep.stage = "idle"
    /\ \E ttl \in 0..MaxTTL :
          sweep' = [stage |-> "scanned", ttl |-> ttl,
                    clenaup |-> SetToSeq(Expired(C, ttl, now))]
    /\ UNCHANGED <<cacheVars, codecVars, fanVars, gateVars, cloneVars, workerVars, genVars, moreVars, cbVars>>

\* c.Delete(clenaup), the last statement of cleanup
SweepDelete ==
    /\ sweep.stage = "scanned"
    /\ CacheType' = [CacheType EXCEPT ![TypeUnderTest] = Delete(@, sweep.clenaup)]
    /\ sweep' = [sweep EXCEPT !.stage = "idle"]
    /\ UNCHANGED <<now, lastOp, db, loaded, nops, codecVars, fanVars, gateVars,
                   cloneVars, workerVars, genVars, moreVars, cbVars>>

\* Set called by another goroutine, at any moment
SweepSet ==
    /\ \E proxyID \in ProxyIDs, SrvID \in SrvIDs :
          CacheType' = [CacheType EXCEPT
                           ![TypeUnderTest] = Set(@, proxyID, 1, SrvID, "n", now)]
    /\ UNCHANGED <<now, lastOp, db, loaded, nops, codecVars, fanVars, gateVars, auxVars, cbVars>>

NextSweep == SweepScan \/ SweepSet \/ SweepDelete \/ Tick

SpecSweep == InitSweep /\ [][NextSweep]_vars

\* the entries the step removes from the cache
Removed == (DOMAIN C.ProxyID) \ (DOMAIN C'.ProxyID)

\* C24: when cleanup runs concurrently with Set, cleanup never deletes an
\* entry that is live at the moment of deletion: every entry its Delete
\* removes is older than ttl when it is removed, also when a Set refreshed it
\* after the removal list was computed.
C24_NoLiveEntryDeleted ==
    [][(sweep.stage = "scanned" /\ sweep'.stage = "idle") =>
           \A proxyID \in Removed : now - C.ProxyID[proxyID].CreatedAt > sweep.ttl]_vars

(***************************************************************************)
(* Translation cache: collisions and the frame of Delete.                  *)
(***************************************************************************)
\* C31: when two different original IDs of one backend get the same proxy
\* ID the first inserted mapping wins: a Set(p, o2, b, n2) on a cache in
\* which GetOriginalID(p, b) finds o1 leaves GetOriginalID(p, b) = o1.
C31_FirstWriterWins ==
    [][(lastOp'.kind = "Set" /\ GetOriginalID(C, lastOp'.p, lastOp'.b).ok) =>
           GetOriginalID(C', lastOp'.p, lastOp'.b)
               = GetOriginalID(C, lastOp'.p, lastOp'.b)]_vars

(***************************************************************************)
(* ifIDBasedResponseSimpleModify: a map of a response whose keys may be    *)
(* identifiers.  A key is a string (a sequence of characters); the range   *)
(* loops visit the keys in the order keymod.order.                         *)
(***************************************************************************)
\* the keys the maps are built from
ModKeySeq == << <<"1">>, <<"2", "0">>, <<"0", "1">>, <<"t">> >>

ModKeys == {ModKeySeq[i] : i \in 1..Len(ModKeySeq)}

\* the value a key holds: its position in ModKeySeq
ModValue(key) == IntV(CHOOSE i \in 1..Len(ModKeySeq) : ModKeySeq[i] = key)

\* isPureDigitString
isPureDigitString(s) == Len(s) > 0 /\ \A i \in 1..Len(s) : s[i] \in DigitChars

\* the second loop: newData[new_key] = data[key] for the keys in their order
RECURSIVE newDataOf(_, _, _, _)
newDataOf(keys, data, serverID, newData) ==
    IF Len(keys) = 0 THEN newData
    ELSE newDataOf(Tail(keys), data, serverID,
                   MapPut(newData, simpleModifyID(StrV(Head(keys)), serverID).s,
                          data[Head(keys)]))

\* ifIDBasedResponseSimpleModify: the first loop returns when the first key
\* it visits is no digit string and collects every key otherwise; the
\* second loop moves the collected keys to their new names
ifIDBasedResponseSimpleModify(data, order, serverID) ==
    IF Len(order) = 0 THEN data
    ELSE IF ~isPureDigitString(order[1]) THEN data
    ELSE newDataOf(order, data, serverID, EmptyMap)

InitKeys ==
    /\ OldIdle /\ LockIdle /\ DedupIdle /\ SnapIdle /\ ReloadIdle
    /\ \E keys \in SUBSET ModKeys :
          \E order \in Perms(keys), serverID \in ServerIDs :
              keymod = [stage |-> "input", order |-> order, serverID |-> serverID,
                        data |-> [key \in keys |-> ModValue(key)],
                        out |-> EmptyMap]

\* processResponseIDs calls ifIDBasedResponseSimpleModify(v, serverID)
ModifyKeys ==
    /\ keymod.stage = "input"
    /\ keymod' = [keymod EXCEPT
                     !.stage = "done",
                     !.out = ifIDBasedResponseSimpleModify(keymod.data, keymod.order,
                                                           keymod.serverID)]
    /\ UNCHANGED <<oldVars, lockVars, dedupVars, snapVars, reloadVars>>

NextKeys == ModifyKeys

SpecKeys == InitKeys /\ [][NextKeys]_vars

\* encode(key, backendID)
EncodedKey(key, serverID) == simpleModifyID(StrV(key), serverID).s

\* C32: in the response rewrite a map has its keys replaced by
\* encode(key, backendID) if and only if all of its keys are decimal digit
\* strings: then its keys are the encoded keys, each holding the value of a
\* key it stands for; a map with at least one non-digit key keeps every key
\* unchanged, whatever the order in which the keys are visited.
C32_AllDigitKeysOnly ==
    keymod.stage = "done" =>
        IF \A key \in DOMAIN keymod.data : isPureDigitString(key)
        THEN /\ DOMAIN keymod.out =
                    {EncodedKey(key, keymod.serverID) : key \in DOMAIN keymod.data}
             /\ \A key \in DOMAIN keymod.data :
                    \E other \in DOMAIN keymod.data :
                        /\ EncodedKey(other, keymod.serverID)
                               = EncodedKey(key, keymod.serverID)
                        /\ keymod.out[EncodedKey(key, keymod.serverID)]
                               = keymod.data[other]
        ELSE keymod.out = keymod.data

\* ---------------------------------------------------------------------------
\* CacheEntry.mu, a sync.RWMutex, as start, Stop, save and toSerializable use
\* it (cache.go 67-85, 249-266, 269-369).  Lock announces the writer first and
\* then waits for the readers that hold the lock; RLock blocks while a writer
\* holds the lock or is announced, also for a goroutine that already holds a
\* read lock.

MaxStops == 2

Workers == {"autosave", "cleanup"}

LockFrame == UNCHANGED <<oldVars, keyVars, dedupVars, snapVars, reloadVars>>

InitLock ==
    /\ OldIdle /\ KeymodIdle /\ DedupIdle /\ SnapIdle /\ ReloadIdle
    /\ \E database \in {"nil", "open"} : elock = [NewLock EXCEPT !.db = database]

\* sync.RWMutex.RLock can proceed
CanRLock == ~elock.writer /\ ~elock.waiting

\* sync.RWMutex.Lock can proceed once it was announced
CanLock == ~elock.writer /\ elock.readers = 0

\* start(cleanInterval, ttl, autoSave) as cache.Init and the tests call it on a
\* new entry; a worker with interval 0 is not started
LockStart(cleanInterval, autoSave) ==
    /\ elock.pc["main"] = "new"
    /\ CanLock
    /\ elock.db = "nil" => autoSave = 0
    /\ elock' = [elock EXCEPT
           !.cancelFunc = TRUE,
           !.pc = [g \in Goroutines |->
                     CASE g = "main" -> "idle"
                       [] g = "cleanup" -> IF cleanInterval = 0 THEN "none" ELSE "select"
                       [] g = "autosave" -> IF autoSave = 0 THEN "none" ELSE "select"]]
    /\ LockFrame

\* Stop is called: ce.mu.Lock() announces the writer
StopCall ==
    /\ elock.pc["main"] = "idle"
    /\ elock.calls < MaxStops
    /\ elock' = [elock EXCEPT !.pc["main"] = "Lock", !.waiting = TRUE,
                              !.calls = @ + 1]
    /\ LockFrame

\* Stop holds the write lock: the registered cancel function is called
StopLock ==
    /\ elock.pc["main"] = "Lock"
    /\ CanLock
    /\ elock' = [elock EXCEPT !.pc["main"] = "Unlock", !.waiting = FALSE,
                              !.writer = TRUE,
                              !.done = @ \/ elock.cancelFunc,
                              !.cancelFunc = FALSE]
    /\ LockFrame

\* Stop releases the write lock; without a database it returns here
StopUnlock ==
    /\ elock.pc["main"] = "Unlock"
    /\ elock' = [elock EXCEPT
           !.writer = FALSE,
           !.pc["main"] = IF elock.db = "nil" THEN "idle" ELSE "save",
           !.returned = IF elock.db = "nil" THEN @ + 1 ELSE @]
    /\ LockFrame

\* save: ce.mu.RLock()
SaveRLock(g) ==
    /\ elock.pc[g] = "save"
    /\ CanRLock
    /\ elock' = [elock EXCEPT !.readers = @ + 1, !.pc[g] = "toSerializable"]
    /\ LockFrame

\* toSerializable, called by save under its read lock: ce.mu.RLock() again
ToSerializableRLock(g) ==
    /\ elock.pc[g] = "toSerializable"
    /\ CanRLock
    /\ elock' = [elock EXCEPT !.readers = @ + 1, !.pc[g] = "copy"]
    /\ LockFrame

\* toSerializable returns: deferred ce.mu.RUnlock()
ToSerializableRUnlock(g) ==
    /\ elock.pc[g] = "copy"
    /\ elock' = [elock EXCEPT !.readers = @ - 1, !.pc[g] = "Update"]
    /\ LockFrame

\* save returns after db.Update: deferred ce.mu.RUnlock()
SaveRUnlock(g) ==
    /\ elock.pc[g] = "Update"
    /\ elock' = [elock EXCEPT !.readers = @ - 1,
                              !.pc[g] = IF g = "main" THEN "Close" ELSE "select"]
    /\ LockFrame

\* Stop closes the database and returns
StopClose ==
    /\ elock.pc["main"] = "Close"
    /\ elock' = [elock EXCEPT !.pc["main"] = "idle", !.db = "closed",
                              !.returned = @ + 1]
    /\ LockFrame

\* a worker's select takes ticker.C
LockTick(g) ==
    /\ g \in Workers
    /\ elock.pc[g] = "select"
    /\ elock' = [elock EXCEPT !.pc[g] = IF g = "autosave" THEN "save" ELSE "sweep"]
    /\ LockFrame

\* the eviction worker finishes its pass over the entity types
CleanupDone ==
    /\ elock.pc["cleanup"] = "sweep"
    /\ elock' = [elock EXCEPT !.pc["cleanup"] = "select"]
    /\ LockFrame

\* a worker's select takes ctx.Done()
LockExit(g) ==
    /\ g \in Workers
    /\ elock.pc[g] = "select"
    /\ elock.done
    /\ elock' = [elock EXCEPT !.pc[g] = "exited"]
    /\ LockFrame

\* the steps a goroutine takes by itself once it is where it is
Proceed(g) ==
    \/ SaveRLock(g) \/ ToSerializableRLock(g)
    \/ ToSerializableRUnlock(g) \/ SaveRUnlock(g)
    \/ (g = "main" /\ (StopLock \/ StopUnlock \/ StopClose))
    \/ (g = "cleanup" /\ CleanupDone)

NextLock ==
    \/ \E cleanInterval, autoSave \in 0..1 : LockStart(cleanInterval, autoSave)
    \/ StopCall
    \/ StopLock
    \/ StopUnlock
    \/ StopClose
    \/ \E g \in {"main", "autosave"} :
          \/ SaveRLock(g)
          \/ ToSerializableRLock(g)
          \/ ToSerializableRUnlock(g)
          \/ SaveRUnlock(g)
    \/ \E g \in Workers : LockTick(g) \/ LockExit(g)
    \/ CleanupDone

SpecLock == InitLock /\ [][NextLock]_vars

\* Every goroutine that can take its next step takes it, and a select whose
\* ctx.Done() case is ready again and again takes it in the end (select
\* chooses at random among the ready cases).
SpecLockFair ==
    /\ SpecLock
    /\ \A g \in Goroutines : WF_vars(Proceed(g))
    /\ \A g \in Workers : SF_vars(LockExit(g))

\* C33: once a Stop call has returned, every worker that was started
\* eventually terminates (a worker with interval zero was never started).
C33_WorkersTerminate ==
    (elock.returned > 0) ~> (\A g \in Workers : elock.pc[g] \in {"none", "exited"})

\* C35: Stop always returns: once the first Stop call on an entry is under
\* way it eventually has returned, whatever the auto-save worker is doing.
C35_StopReturns ==
    (elock.calls = 1 /\ elock.returned = 0) ~> (elock.returned > 0)

\* the proxy IDs a Delete call names
Named(proxyIDs) == {proxyIDs[i] : i \in 1..Len(proxyIDs)}

\* C34: Delete(ps) changes only the mappings of the proxy IDs in ps: a proxy
\* ID q outside ps that resolved to o on backend b, in both directions,
\* before the call still does so after it.
C34_DeleteFrame ==
    [][lastOp'.kind = "Delete" =>
         \A proxyIDs \in DeleteLists :
            C' = Delete(C, proxyIDs) =>
               \A q \in ProxyIDs \ Named(proxyIDs), b \in SrvIDs, o \in OrigIDs :
                  (/\ GetOriginalID(C, q, b) = Found(o)
                   /\ GetProxyID(C, o, b) = Found(q))
                  => (/\ GetOriginalID(C', q, b) = Found(o)
                      /\ GetProxyID(C', o, b) = Found(q))]_vars

\* C36: the circuit breaker is told of a failure of a backend only after a
\* Send to that backend returned an error: a backend whose last report is a
\* failure has a task of the request that failed in SendToZabbix.
C36_FailureOnlyAfterSend ==
    \A sid \in ServerIDs :
        breaker[sid] = "failure" => \E r \in Clients : task[r][sid] = "failed"

\* ---------------------------------------------------------------------------
\* The duplicate check of processIDField (proxyIDprocessing.go 378-424) as
\* the goroutines of one client request run it on the map uniqProxyIDs they
\* share (part_002 222-223, 380): isDuplicateID under uniqMu.RLock, then
\* markIDAsProcessed under uniqMu.Lock.

MaxItems == 2

\* proxy IDs generated for the objects of a deduplicated entity type
DedupIDs == {5, 6}

DedupFrame == UNCHANGED <<oldVars, keyVars, lockVars, snapVars, reloadVars>>

InitDedup ==
    /\ OldIdle /\ KeymodIdle /\ LockIdle /\ SnapIdle /\ ReloadIdle
    /\ \E its \in [ServerIDs -> UNION {[1..n -> DedupIDs] : n \in 0..MaxItems}] :
          dedup = [NewDedup EXCEPT !.items = its]

\* isDuplicateID(id, fieldType, uniqProxyID, mu): a duplicate is filtered out
\* (processIDField returns nil), otherwise the goroutine goes on to mark it
IsDuplicateStep(sid) ==
    /\ dedup.pc[sid] = "isDuplicateID"
    /\ Len(dedup.items[sid]) > 0
    /\ LET id == Head(dedup.items[sid]) IN
       IF id \in dedup.uniqProxyID
       THEN dedup' = [dedup EXCEPT !.items[sid] = Tail(@)]
       ELSE dedup' = [dedup EXCEPT !.pc[sid] = "markIDAsProcessed"]
    /\ DedupFrame

\* markIDAsProcessed(id, fieldType, uniqProxyID, mu), and the ID is returned
\* as that of a first occurrence
MarkStep(sid) ==
    /\ dedup.pc[sid] = "markIDAsProcessed"
    /\ LET id == Head(dedup.items[sid]) IN
       dedup' = [dedup EXCEPT !.uniqProxyID = @ \cup {id},
                              !.kept[sid] = Append(@, id),
                              !.items[sid] = Tail(@),
                              !.pc[sid] = "isDuplicateID"]
    /\ DedupFrame

NextDedup == \E sid \in ServerIDs : IsDuplicateStep(sid) \/ MarkStep(sid)

SpecDedup == InitDedup /\ [][NextDedup]_vars

\* the occurrences of id that were treated as the first
FirstOccurrences(id) ==
    {<<sid, i>> \in ServerIDs \X (1..MaxItems) :
        i <= Len(dedup.kept[sid]) /\ dedup.kept[sid][i] = id}

\* C37: within one client request at most one occurrence of a deduplicated
\* proxy ID, over the responses of all backends, is treated as the first.
C37_OneFirstOccurrence ==
    \A id \in DedupIDs : Cardinality(FirstOccurrences(id)) <= 1

\* ---------------------------------------------------------------------------
\* A snapshot taken while Set runs on one entity type.  Set holds c.mu.Lock
\* over both map updates (cache.go 112-180).  toSerializable holds v.mu.RLock
\* while it stores the two map references in the serializable entry (cache.go
\* 75-82); save hands that entry to json.Marshal inside db.Update (cache.go
\* 255-265), which walks the maps after the read lock was released.

MaxSets == 2

SnapFrame == UNCHANGED <<oldVars, keyVars, lockVars, dedupVars, reloadVars>>

InitSnap ==
    /\ OldIdle /\ KeymodIdle /\ LockIdle /\ DedupIdle /\ ReloadIdle
    /\ snap = NewSnap

\* Set: c.mu.Lock()
SnapSetLock(proxyID, OriginalID, SrvID) ==
    /\ snap.set.pc = "idle"
    /\ snap.nsets < MaxSets
    /\ ~snap.writer
    /\ snap' = [snap EXCEPT !.writer = TRUE, !.nsets = @ + 1,
                            !.set = [pc |-> "forward", proxyID |-> proxyID,
                                     OriginalID |-> OriginalID, SrvID |-> SrvID]]
    /\ SnapFrame

\* Set: c.ProxyID[proxyID] is written
SnapSetForward ==
    /\ snap.set.pc = "forward"
    /\ snap' = [snap EXCEPT
           !.c.ProxyID = SetForward(snap.c, snap.set.proxyID, snap.set.OriginalID,
                                    snap.set.SrvID, "n", 0),
           !.set.pc = "reverse"]
    /\ SnapFrame

\* Set: c.ReverseID[OriginalID] is written
SnapSetReverse ==
    /\ snap.set.pc = "reverse"
    /\ snap' = [snap EXCEPT
           !.c.ReverseID = SetReverse(snap.c, snap.set.proxyID, snap.set.OriginalID,
                                      snap.set.SrvID),
           !.set.pc = "unlock"]
    /\ SnapFrame

\* Set: deferred c.mu.Unlock(); the update is complete
SnapSetUnlock ==
    /\ snap.set.pc = "unlock"
    /\ snap' = [snap EXCEPT !.writer = FALSE, !.set.pc = "idle",
                            !.complete = @ \cup {snap.c}]
    /\ SnapFrame

\* toSerializable: under v.mu.RLock the references of the two maps are stored
SnapToSerializable ==
    /\ snap.save = "idle"
    /\ ~snap.writer
    /\ snap' = [snap EXCEPT !.save = "Marshal"]
    /\ SnapFrame

\* json.Marshal walks the maps the references point to; while Set is writing
\* them this is a data race: the runtime stops the program ("concurrent map
\* iteration and map write") or the maps are read as they are
SnapMarshal ==
    /\ snap.save = "Marshal"
    /\ \/ snap' = [snap EXCEPT !.save = "saved", !.data = snap.c]
       \/ /\ snap.writer
          /\ snap' = [snap EXCEPT !.save = "fatal"]
    /\ SnapFrame

NextSnap ==
    \/ \E proxyID \in ProxyIDs, OriginalID \in OrigIDs, SrvID \in SrvIDs :
          SnapSetLock(proxyID, OriginalID, SrvID)
    \/ SnapSetForward
    \/ SnapSetReverse
    \/ SnapSetUnlock
    \/ SnapToSerializable
    \/ SnapMarshal

SpecSnap == InitSnap /\ [][NextSnap]_vars

\* C38: a snapshot taken while Set calls run never holds a half-applied
\* update: what was saved is the content the maps had between two calls.
C38_SnapshotComplete ==
    snap.save = "saved" => snap.data \in snap.complete

\* ---------------------------------------------------------------------------
\* reloadConfiguration (main.go 171-193) while tasks of processAllServers are
\* in flight.  InitProxy assigns a new proxy value to the package variable
\* prx (part_002 91-94), with a new requestSemaphore of the configured size;
\* a task acquires with prx.requestSemaphore <- struct{}{} (part_002 258) and
\* its deferred release <-prx.requestSemaphore (part_002 286) reads prx when
\* it runs.

ReloadFrame == UNCHANGED <<oldVars, keyVars, lockVars, dedupVars, snapVars>>

InitReload ==
    /\ OldIdle /\ KeymodIdle /\ LockIdle /\ DedupIdle /\ SnapIdle
    /\ resem = NewResem /\ reconf = NewReconf

\* what loadConf leaves in newConf and whether it returned an error: a file
\* that cannot be opened leaves config{}
ReloadFiles ==
    { [err |-> TRUE, cfg |-> ZeroConfig],
      [err |-> FALSE, cfg |-> StartConfig],
      [err |-> FALSE, cfg |-> Config({1}, 1, "cache.db")] }

\* prx.requestSemaphore <- struct{}{} on the semaphore prx holds now
ReAcquire(t) ==
    /\ reconf.alive
    /\ resem.task[t].pc = "none"
    /\ resem.sem[resem.cur] < resem.cap[resem.cur]
    /\ resem' = [resem EXCEPT !.sem[resem.cur] = @ + 1,
                              !.task[t] = [pc |-> "running", on |-> resem.cur]]
    /\ UNCHANGED reconf
    /\ ReloadFrame

\* the deferred <-prx.requestSemaphore of a task: it receives from the
\* semaphore prx holds now and blocks while that one is empty
ReRelease(t) ==
    /\ reconf.alive
    /\ resem.task[t].pc = "running"
    /\ resem.sem[resem.cur] > 0
    /\ resem' = [resem EXCEPT !.sem[resem.cur] = @ - 1,
                              !.task[t].pc = "done"]
    /\ UNCHANGED reconf
    /\ ReloadFrame

\* on a semaphore without buffer a send meets a blocked receive: task t
\* acquires and the release of task u completes
ReHandoff(t, u) ==
    /\ reconf.alive
    /\ resem.cap[resem.cur] = 0
    /\ resem.task[t].pc = "none"
    /\ resem.task[u].pc = "running"
    /\ resem' = [resem EXCEPT !.task[t] = [pc |-> "running", on |-> resem.cur],
                              !.task[u].pc = "done"]
    /\ UNCHANGED reconf
    /\ ReloadFrame

\* reloadConfiguration: the error of loadConf is logged, then the cache is
\* stopped, conf replaced and InitProxy called with what loadConf left.
\* cache.Init ends the process through logger.Global.Fatal when the database
\* cannot be opened; the logger is outside the source, so with an empty path
\* both outcomes are kept.
reloadConfiguration(file) ==
    /\ reconf.alive
    /\ reconf.nreload < MaxReloads
    /\ LET newConf == file.cfg IN
       /\ \E opened \in BOOLEAN :
             /\ newConf.DBPath # "" => opened
             /\ reconf' = [conf |-> newConf, Servers |-> newConf.Servers,
                           cache |-> [DBPath |-> newConf.DBPath,
                                      entry |-> reconf.cache.entry + 1],
                           alive |-> opened,
                           loaded |-> IF file.err THEN "failed" ELSE "ok",
                           nreload |-> reconf.nreload + 1]
       /\ resem' = [resem EXCEPT !.cur = @ + 1,
                                 !.cap[resem.cur + 1] = newConf.MaxRequests]
    /\ ReloadFrame

NextReload ==
    \/ \E t \in 1..MaxTasks : ReAcquire(t) \/ ReRelease(t)
    \/ \E t, u \in 1..MaxTasks : ReHandoff(t, u)
    \/ \E file \in ReloadFiles : reloadConfiguration(file)

SpecReload == InitReload /\ [][NextReload]_vars

\* the tasks that acquired their slot on semaphore g and have not released
StartedUnder(g) ==
    {t \in 1..MaxTasks : resem.task[t].pc = "running" /\ resem.task[t].on = g}

\* C39: a slot is released on the semaphore it was acquired on: the
\* semaphore of the current proxy state, when it has a buffer, never counts
\* fewer held slots than tasks that were started under it and are still
\* running.
C39_SlotsOnOwnSemaphore ==
    resem.cap[resem.cur] > 0 =>
        resem.sem[resem.cur] >= Cardinality(StartedUnder(resem.cur))

\* C40: a reload whose loadConf failed leaves the running state as it was:
\* configuration, backend list, translation cache, and the proxy serving.
C40_FailedReloadKeepsState ==
    [][(reconf'.nreload # reconf.nreload /\ reconf'.loaded = "failed") =>
          /\ reconf'.conf = reconf.conf
          /\ reconf'.Servers = reconf.Servers
          /\ reconf'.cache = reconf.cache
          /\ reconf'.alive]_vars

============================================================================
